---- MODULE Spec2Model ----
(***************************************************************************)
(* Chat backend (FastAPI + SQLAlchemy + pluggable generation adapters).    *)
(* The store (users, chats, messages), the chat-turn orchestration of      *)
(* app/main.py, the other chat endpoints, and the generation adapters of   *)
(* app/services and app/features/chatbot/services.                         *)
(*                                                                         *)
(* Conventions                                                             *)
(*   - a Python Optional is a sequence: <<>> is None, <<v>> is the value v *)
(*   - a Python value handed back by an adapter is a record [t, v]: t is   *)
(*     its type ("str", "NoneType", "int"), v its text                     *)
(*   - datetime.utcnow() is the counter clock, read and advanced by every  *)
(*     statement that writes a timestamp                                   *)
(*   - columns no code reads (created_at) are left out                     *)
(*   - the emoji that open two of the reply strings are left out           *)
(***************************************************************************)
EXTENDS Integers, Sequences, FiniteSets, TLC

VARIABLES ai_service, openai_api_key, users, chats, messages, clock, turn, resp,
          call, tokens

vars == <<ai_service, openai_api_key, users, chats, messages, clock, turn, resp,
          call, tokens>>

store == <<users, chats, messages>>

(***************************************************************************)
(* Bounds of the model                                                     *)
(***************************************************************************)
MaxChats == 2
MaxMessages == 4
MaxClock == 8

\* the registrations tried: (username, email)
Registrations == {<<"alice", "a@x.io">>, <<"bob", "b@x.io">>}
UserMessages == {"Hello"}
Titles == {"Plans"}
ModelText == "Hi there"
Procs == {"p1", "p2"}
SeqProcs == {"p1"}

None == <<>>
Some(v) == <<v>>
IsNone(o) == o = <<>>
Val(o) == o[1]

PyStr(s) == [t |-> "str", v |-> s]
PyNone == [t |-> "NoneType", v |-> ""]
PyInt(s) == [t |-> "int", v |-> s]

USER == "USER"
AI == "AI"

(***************************************************************************)
(* ORDER BY sent_at ASC: the rows of S as a sequence. sent_at values are   *)
(* distinct, since clock advances with every row written.                  *)
(***************************************************************************)
RECURSIVE SortBySentAt(_)
SortBySentAt(S) ==
    IF S = {} THEN <<>>
    ELSE LET m == CHOOSE x \in S : \A y \in S : x.sent_at <= y.sent_at
         IN  <<m>> \o SortBySentAt(S \ {m})

Reverse(s) == [i \in 1..Len(s) |-> s[Len(s) + 1 - i]]

Take(s, n) == SubSeq(s, 1, IF Len(s) < n THEN Len(s) ELSE n)

\* s[-k:]
\* s[:k] where the code has s[-k:]
FirstK(s, k) == SubSeq(s, 1, IF Len(s) < k THEN Len(s) ELSE k)

\* s[-k:]
LastK(s, k) == IF Len(s) <= k THEN s ELSE SubSeq(s, Len(s) - k + 1, Len(s))

SetMax(S) == CHOOSE x \in S : \A y \in S : y <= x

\* INTEGER PRIMARY KEY without AUTOINCREMENT: the next rowid is max(rowid) + 1
NextId(rows) == IF rows = {} THEN 1 ELSE SetMax({r.id : r \in rows}) + 1

(***************************************************************************)
(* app/crud.py                                                             *)
(***************************************************************************)
get_user_by_username(us, username) ==
    LET m == {u \in us : u.username = username}
    IN  IF m = {} THEN None ELSE Some(CHOOSE u \in m : TRUE)

\* get_user_by_email filtering on the username column
get_user_by_email_on_username(us, email) ==
    LET m == {u \in us : u.username = email}
    IN  IF m = {} THEN None ELSE Some(CHOOSE u \in m : TRUE)

get_user_by_email(us, email) ==
    LET m == {u \in us : u.email = email}
    IN  IF m = {} THEN None ELSE Some(CHOOSE u \in m : TRUE)

\* sha256(...).hexdigest(): a digest that is different for different texts
Sha256(text) == "sha256(" \o text \o ")"

\* lines 34-38; secrets.token_hex(16) is the salt
hash_password(password, salt) == salt \o ":" \o Sha256(password \o salt)

\* str.split(":")
RECURSIVE SplitOnColon(_)
SplitOnColon(s) ==
    LET colons == {i \in 1..Len(s) : SubSeq(s, i, i) = ":"} IN
    IF colons = {} THEN <<s>>
    ELSE LET i == CHOOSE j \in colons : \A k \in colons : j <= k
         IN  <<SubSeq(s, 1, i - 1)>> \o SplitOnColon(SubSeq(s, i + 1, Len(s)))

\* verify_password comparing against the digest of the password alone
verify_password_unsalted(plain_password, hashed_password) ==
    LET parts == SplitOnColon(hashed_password) IN
    IF Len(parts) # 2 THEN FALSE
    ELSE Sha256(plain_password) = parts[2]

\* lines 41-47: the unpacking raises ValueError unless there are two parts
verify_password(plain_password, hashed_password) ==
    LET parts == SplitOnColon(hashed_password) IN
    IF Len(parts) # 2 THEN FALSE
    ELSE Sha256(plain_password \o parts[1]) = parts[2]

\* lines 50-61
create_user(us, username, email, hashed_password) ==
    us \cup {[id |-> NextId(us), username |-> username, email |-> email,
              hashed_password |-> hashed_password]}

\* lines 64-69
authenticate_user(us, username, password) ==
    LET user == get_user_by_username(us, username) IN
    IF IsNone(user) \/ ~verify_password(password, Val(user).hashed_password)
    THEN None
    ELSE user

get_chat(cs, chat_id) ==
    LET m == {c \in cs : c.id = chat_id}
    IN  IF m = {} THEN None ELSE Some(CHOOSE c \in m : TRUE)

\* the default of get_user_chats' limit argument
ChatsLimit == 50

\* the orders in which a query may return the rows of S
Orderings(S) ==
    {s \in [1..Cardinality(S) -> S] : \A i, j \in DOMAIN s : i # j => s[i] # s[j]}

\* lines 78-86: the user's chats by updated_at, latest first, at most limit of
\* them; rows of equal updated_at come in an order the database chooses
get_user_chats(cs, user_id, limit) ==
    {SubSeq(s, 1, IF Len(s) < limit THEN Len(s) ELSE limit) :
        s \in {o \in Orderings({c \in cs : c.user_id = user_id}) :
                  \A i, j \in DOMAIN o :
                      i < j => o[i].updated_at >= o[j].updated_at}}

create_chat(cs, user_id, now) ==
    cs \cup {[id |-> NextId(cs), user_id |-> user_id, title |-> None,
              updated_at |-> now]}

\* lines 101-109 without the commit: the title is set on the object and lost
update_chat_title_uncommitted(cs, chat_id, title, now) == cs

update_chat_title(cs, chat_id, title, now) ==
    {IF c.id = chat_id THEN [c EXCEPT !.title = Some(title), !.updated_at = now]
                       ELSE c : c \in cs}

\* db.delete(chat): the chat row, and by the relationship's cascade its messages
delete_chat_rows(cs, chat_id) == {c \in cs : c.id # chat_id}
\* db.delete(chat) on a relationship that leaves the messages alone
delete_chat_messages_kept(ms, chat_id) == ms

delete_chat_messages(ms, chat_id) == {m \in ms : m.chat_id # chat_id}

\* lines 123-130 with order_by(Message.sent_at.desc())
get_chat_messages_latest_first(ms, chat_id) ==
    Reverse(SortBySentAt({m \in ms : m.chat_id = chat_id}))

get_chat_messages(ms, chat_id) ==
    SortBySentAt({m \in ms : m.chat_id = chat_id})

\* create_message losing its sender argument
create_message_as_user(ms, chat_id, content, sender, now) ==
    ms \cup {[id |-> NextId(ms), chat_id |-> chat_id, content |-> content,
              sender |-> USER, sent_at |-> now]}

create_message(ms, chat_id, content, sender, now) ==
    ms \cup {[id |-> NextId(ms), chat_id |-> chat_id, content |-> content,
              sender |-> sender, sent_at |-> now]}

\* the chat's updated_at as create_message leaves it
touch_chat(cs, chat_id, now) ==
    {IF c.id = chat_id THEN [c EXCEPT !.updated_at = now] ELSE c : c \in cs}

HistoryLimit == 10

HistoryEntry(m) == [content |-> m.content, sender |-> m.sender]

\* get_chat_history_for_ai ordering by sent_at ascending before the limit
get_chat_history_for_ai_oldest(ms, chat_id) ==
    LET rows == Take(SortBySentAt({m \in ms : m.chat_id = chat_id}), HistoryLimit)
    IN  [i \in 1..Len(rows) |-> HistoryEntry(rows[i])]

get_chat_history_for_ai(ms, chat_id) ==
    LET desc == Reverse(SortBySentAt({m \in ms : m.chat_id = chat_id}))
        rows == Take(desc, HistoryLimit)
        asc  == Reverse(rows)
    IN  [i \in 1..Len(asc) |-> HistoryEntry(asc[i])]

(***************************************************************************)
(* Python str operations used by the adapters                              *)
(***************************************************************************)
Ch(s, i) == SubSeq(s, i, i)

IsSpace(c) == c \in {" ", "\n", "\t", "\r"}

RECURSIVE LStrip(_)
LStrip(s) ==
    IF Len(s) > 0 /\ IsSpace(Ch(s, 1)) THEN LStrip(SubSeq(s, 2, Len(s))) ELSE s

RECURSIVE RStrip(_)
RStrip(s) ==
    IF Len(s) > 0 /\ IsSpace(Ch(s, Len(s))) THEN RStrip(SubSeq(s, 1, Len(s) - 1))
    ELSE s

\* s.strip()
PyStrip(s) == RStrip(LStrip(s))

StartsWith(s, p) == Len(p) <= Len(s) /\ SubSeq(s, 1, Len(p)) = p

\* s.replace(old, "")
RECURSIVE PyRemove(_, _)
PyRemove(s, old) ==
    IF Len(s) = 0 THEN s
    ELSE IF Len(old) > 0 /\ StartsWith(s, old)
         THEN PyRemove(SubSeq(s, Len(old) + 1, Len(s)), old)
         ELSE Ch(s, 1) \o PyRemove(SubSeq(s, 2, Len(s)), old)

\* sub in s
PyIn(sub, s) ==
    \E i \in 1..(Len(s) - Len(sub) + 1) : SubSeq(s, i, i + Len(sub) - 1) = sub

(***************************************************************************)
(* What the generation backend does with one request: the transport fails  *)
(* (connect_fail, timeout), something else goes wrong while the context is *)
(* built or the provider called (crash), or a response arrives with a      *)
(* status and, under 200, a body whose expected field is                   *)
(*   text        the generated text                                        *)
(*   text_echo   the prompt followed by the generated text                 *)
(*   empty_text  the empty string                                          *)
(*   null        JSON null                                                 *)
(*   number      a JSON number                                             *)
(*   missing     absent                                                    *)
(* or whose body is not JSON (not_json) or JSON of another shape           *)
(* (wrong_shape).                                                          *)
(***************************************************************************)
ErrorStatuses == {404, 500, 503}

Bodies == {"text", "text_echo", "empty_text", "null", "number", "missing",
           "not_json", "wrong_shape"}

Outcome(net, status, body) == [net |-> net, status |-> status, body |-> body]

FailureOutcomes ==
    {Outcome(n, 0, "none") : n \in {"connect_fail", "timeout", "crash"}}
    \cup {Outcome("response", st, "none") : st \in ErrorStatuses}

BackendOutcomes ==
    FailureOutcomes \cup {Outcome("response", 200, b) : b \in Bodies}

\* the outcomes a chat turn's generation call is tried with
TurnOutcomes ==
    {Outcome("connect_fail", 0, "none"), Outcome("response", 200, "text"),
     Outcome("response", 200, "null")}

\* the classes an exception is an instance of (except clauses match on these)
Ancestors(exc) ==
    CASE exc = "ConnectError" ->
            {"ConnectError", "TransportError", "HTTPError", "Exception"}
      [] exc = "ReadTimeout" ->
            {"ReadTimeout", "TimeoutException", "TransportError", "HTTPError",
             "Exception"}
      [] exc = "JSONDecodeError" -> {"JSONDecodeError", "ValueError", "Exception"}
      [] exc \in {"APIConnectionError", "APITimeoutError", "APIStatusError"} ->
            {exc, "APIError", "OpenAIError", "Exception"}
      [] OTHER -> {exc, "Exception"}

IsInstance(exc, cls) == cls \in Ancestors(exc)

\* the result of a block of code: a value returned, or an exception raised
Return(val) == [raised |-> "", value |-> val]
Raise(exc) == [raised |-> exc, value |-> PyNone]
Raised(r) == r.raised # ""

NumberBody == "42"

(***************************************************************************)
(* app/services/ollama_service.py (the copy app/main.py imports)           *)
(***************************************************************************)
OllamaPreamble ==
    "You are a helpful and friendly AI assistant. Provide clear, concise, and helpful responses.\n\n"

OllamaWindow == 5

RECURSIVE OllamaLines(_)
OllamaLines(h) ==
    IF Len(h) = 0 THEN ""
    ELSE (IF h[1].sender = USER THEN "Human" ELSE "Assistant")
         \o ": " \o h[1].content \o "\n" \o OllamaLines(Tail(h))

ollama_prepare_context(message, chat_history) ==
    OllamaPreamble \o OllamaLines(LastK(chat_history, OllamaWindow))
    \o "Human: " \o message \o "\nAssistant:"

\* httpx.post and the handling of its response, lines 33-51
OllamaTry(message, chat_history, o) ==
    LET context == ollama_prepare_context(message, chat_history) IN
    CASE o.net = "crash" -> Raise("RuntimeError")
      [] o.net = "connect_fail" -> Raise("ConnectError")
      [] o.net = "timeout" -> Raise("ReadTimeout")
      [] o.status # 200 ->
            Return(PyStr("I'm having trouble connecting to the AI service."))
      [] o.body = "not_json" -> Raise("JSONDecodeError")
      [] o.body = "wrong_shape" -> Raise("AttributeError")
      [] o.body = "missing" ->
            Return(PyStr("Sorry, I couldn't generate a response."))
      [] o.body = "text" -> Return(PyStr(ModelText))
      [] o.body = "text_echo" -> Return(PyStr(context \o " " \o ModelText))
      [] o.body = "empty_text" -> Return(PyStr(""))
      [] o.body = "null" -> Return(PyNone)
      [] OTHER -> Return(PyInt(NumberBody))

\* the except clauses of lines 53-57 without the first
OllamaExcept_generic_only(r) ==
    IF ~Raised(r) THEN r
    ELSE IF IsInstance(r.raised, "Exception")
    THEN Return(PyStr("I apologize, but I'm having trouble generating a response right now."))
    ELSE r

\* lines 53-57
OllamaExcept(r) ==
    IF ~Raised(r) THEN r
    ELSE IF IsInstance(r.raised, "ConnectError")
    THEN Return(PyStr("Ollama is not running. Please start Ollama first: 'ollama serve'"))
    ELSE IF IsInstance(r.raised, "Exception")
    THEN Return(PyStr("I apologize, but I'm having trouble generating a response right now."))
    ELSE r

ollama_generate_response(message, chat_history, o) ==
    OllamaExcept(OllamaTry(message, chat_history, o))

(***************************************************************************)
(* app/features/chatbot/services/ollama_service.py                         *)
(***************************************************************************)
FeaturesOllamaTry(message, chat_history, o) ==
    IF o.net = "response" /\ o.status # 200
    THEN Return(PyStr("I'm having trouble connecting to the AI service. Status: "
                      \o ToString(o.status)))
    ELSE OllamaTry(message, chat_history, o)

\* the except clauses of lines 53-59 without the one for timeouts
FeaturesOllamaExcept_no_timeout(r, o) ==
    IF ~Raised(r) THEN r
    ELSE IF IsInstance(r.raised, "ConnectError")
    THEN Return(PyStr("Ollama is not running. Please start Ollama first: 'ollama serve'"))
    ELSE IF IsInstance(r.raised, "HTTPStatusError")
    THEN Return(PyStr("HTTP error occurred: " \o ToString(o.status)))
    ELSE IF IsInstance(r.raised, "Exception")
    THEN Return(PyStr("I apologize, but I'm having trouble generating a response right now."))
    ELSE r

\* lines 53-59
FeaturesOllamaExcept(r, o) ==
    IF ~Raised(r) THEN r
    ELSE IF IsInstance(r.raised, "ConnectError")
    THEN Return(PyStr("Ollama is not running. Please start Ollama first: 'ollama serve'"))
    ELSE IF IsInstance(r.raised, "TimeoutException")
    THEN Return(PyStr("Request timed out. The model might be taking too long to respond."))
    ELSE IF IsInstance(r.raised, "HTTPStatusError")
    THEN Return(PyStr("HTTP error occurred: " \o ToString(o.status)))
    ELSE IF IsInstance(r.raised, "Exception")
    THEN Return(PyStr("I apologize, but I'm having trouble generating a response right now."))
    ELSE r

features_ollama_generate_response(message, chat_history, o) ==
    FeaturesOllamaExcept(FeaturesOllamaTry(message, chat_history, o), o)

(***************************************************************************)
(* app/services/huggingface_service.py                                     *)
(***************************************************************************)
HuggingFaceWindow == 3

RECURSIVE HuggingFaceLines(_)
HuggingFaceLines(h) ==
    IF Len(h) = 0 THEN ""
    ELSE (IF h[1].sender = USER THEN "Human" ELSE "Bot")
         \o ": " \o h[1].content \o "\n" \o HuggingFaceLines(Tail(h))

\* _prepare_input whose last line stops after the message
huggingface_prepare_input_no_cue(message, chat_history) ==
    HuggingFaceLines(LastK(chat_history, HuggingFaceWindow))
    \o "Human: " \o message \o "\n"

\* lines 78-102
huggingface_prepare_input(message, chat_history) ==
    HuggingFaceLines(LastK(chat_history, HuggingFaceWindow))
    \o "Human: " \o message \o "\nBot:"

\* lines 56-64: result is a non-empty list whose first entry holds generated_text
HuggingFaceExtract(inputs, generated_text) ==
    LET bot_response == IF PyIn(inputs, generated_text)
                        THEN PyStrip(PyRemove(generated_text, inputs))
                        ELSE PyStrip(generated_text)
    IN  IF bot_response # "" THEN Return(PyStr(bot_response))
        ELSE Return(PyStr("I'm not sure how to respond to that."))

HuggingFaceTry(message, chat_history, o) ==
    LET inputs == huggingface_prepare_input(message, chat_history) IN
    CASE o.net = "crash" -> Raise("RuntimeError")
      [] o.net = "connect_fail" -> Raise("ConnectError")
      [] o.net = "timeout" -> Raise("ReadTimeout")
      [] o.status = 503 ->
            Return(PyStr("The AI model is currently loading. Please try again in a moment."))
      [] o.status # 200 ->
            Return(PyStr("I'm having trouble connecting to the AI service."))
      [] o.body = "not_json" -> Raise("JSONDecodeError")
      [] o.body = "wrong_shape" ->
            Return(PyStr("Sorry, I couldn't generate a response."))
      [] o.body = "missing" -> HuggingFaceExtract(inputs, "")
      [] o.body = "text" -> HuggingFaceExtract(inputs, ModelText)
      [] o.body = "text_echo" ->
            HuggingFaceExtract(inputs, inputs \o " " \o ModelText)
      [] o.body = "empty_text" -> HuggingFaceExtract(inputs, "")
      [] OTHER -> Raise("TypeError")

\* lines 74-76 catching httpx.HTTPError instead of Exception
HuggingFaceExcept_http_only(r) ==
    IF ~Raised(r) THEN r
    ELSE IF IsInstance(r.raised, "HTTPError")
    THEN Return(PyStr("I apologize, but I'm having trouble generating a response right now."))
    ELSE r

\* lines 74-76
HuggingFaceExcept(r) ==
    IF ~Raised(r) THEN r
    ELSE IF IsInstance(r.raised, "Exception")
    THEN Return(PyStr("I apologize, but I'm having trouble generating a response right now."))
    ELSE r

huggingface_generate_response(message, chat_history, o) ==
    HuggingFaceExcept(HuggingFaceTry(message, chat_history, o))

(***************************************************************************)
(* app/services/chatbot_service.py (OpenAI)                                *)
(***************************************************************************)
OpenAIWindow == 10

OpenAIPreamble ==
    "You are a helpful and friendly AI assistant. Provide clear, concise, and helpful responses to user questions."

OpenAIEntry(e) ==
    [role |-> IF e.sender = USER THEN "user" ELSE "assistant", content |-> e.content]

openai_prepare_messages(message, chat_history) ==
    LET h == LastK(chat_history, OpenAIWindow) IN
    <<[role |-> "system", content |-> OpenAIPreamble]>>
    \o [i \in 1..Len(h) |-> OpenAIEntry(h[i])]
    \o <<[role |-> "user", content |-> message]>>

\* client.chat.completions.create and response.choices[0].message.content.strip()
OpenAITry(message, chat_history, o) ==
    CASE o.net = "crash" -> Raise("RuntimeError")
      [] o.net = "connect_fail" -> Raise("APIConnectionError")
      [] o.net = "timeout" -> Raise("APITimeoutError")
      [] o.status # 200 -> Raise("APIStatusError")
      [] o.body = "not_json" -> Raise("JSONDecodeError")
      [] o.body = "wrong_shape" -> Raise("TypeError")
      [] o.body = "missing" -> Raise("IndexError")
      [] o.body = "text" -> Return(PyStr(PyStrip(ModelText)))
      [] o.body = "text_echo" ->
            Return(PyStr(PyStrip(message \o " " \o ModelText)))
      [] o.body = "empty_text" -> Return(PyStr(PyStrip("")))
      [] OTHER -> Raise("AttributeError")

OpenAIExcept(r) ==
    IF ~Raised(r) THEN r
    ELSE IF IsInstance(r.raised, "Exception")
    THEN Return(PyStr("I apologize, but I'm having trouble generating a response right now. Please try again."))
    ELSE r

openai_generate_response(message, chat_history, o) ==
    OpenAIExcept(OpenAITry(message, chat_history, o))

(***************************************************************************)
(* generate_chat_title of the three adapters app/main.py selects among     *)
(***************************************************************************)
TitleText == "Greeting Chat"

TitleCut == 30

\* f"Chat about {first_message[:30]}..."
ChatAboutTitle(first_message) ==
    "Chat about " \o SubSeq(first_message, 1,
                            IF Len(first_message) < TitleCut THEN Len(first_message)
                            ELSE TitleCut) \o "..."

\* result.get("response", "").strip(), lines 106-111
OllamaTitleTry(first_message, o) ==
    LET prompt == "Generate a short title (3-5 words) for this conversation: "
                  \o first_message \o "\nTitle:"
        keep(title) == IF title # "" THEN Return(PyStr(title))
                       ELSE Return(PyStr(ChatAboutTitle(first_message)))
    IN
    CASE o.net = "crash" -> Raise("RuntimeError")
      [] o.net = "connect_fail" -> Raise("ConnectError")
      [] o.net = "timeout" -> Raise("ReadTimeout")
      [] o.status # 200 -> Return(PyStr(ChatAboutTitle(first_message)))
      [] o.body = "not_json" -> Raise("JSONDecodeError")
      [] o.body = "wrong_shape" -> Raise("AttributeError")
      [] o.body = "missing" -> keep(PyStrip(""))
      [] o.body = "text" -> keep(PyStrip(TitleText))
      [] o.body = "text_echo" -> keep(PyStrip(prompt \o " " \o TitleText))
      [] o.body = "empty_text" -> keep(PyStrip(""))
      [] OTHER -> Raise("AttributeError")

ollama_generate_chat_title(first_message, o) ==
    LET r == OllamaTitleTry(first_message, o) IN
    IF Raised(r) /\ IsInstance(r.raised, "Exception")
    THEN Return(PyStr(ChatAboutTitle(first_message)))
    ELSE r

\* first_message.split()
RECURSIVE PySplit(_)
PySplit(s) ==
    LET t == LStrip(s) IN
    IF Len(t) = 0 THEN <<>>
    ELSE LET n == CHOOSE k \in 1..Len(t) :
                    /\ \A j \in 1..k : ~IsSpace(Ch(t, j))
                    /\ (k = Len(t) \/ IsSpace(Ch(t, k + 1)))
         IN  <<SubSeq(t, 1, n)>> \o PySplit(SubSeq(t, n + 1, Len(t)))

\* " ".join(words)
RECURSIVE PyJoin(_)
PyJoin(words) ==
    IF Len(words) = 0 THEN ""
    ELSE IF Len(words) = 1 THEN words[1]
    ELSE words[1] \o " " \o PyJoin(Tail(words))

TitleWords == 4

huggingface_generate_chat_title(first_message, o) ==
    LET all == PySplit(first_message)
        words == Take(all, TitleWords)
    IN  Return(PyStr(PyJoin(words) \o (IF Len(all) > TitleWords THEN "..." ELSE "")))

\* response.choices[0].message.content.strip(), lines 112-129
OpenAITitleTry(first_message, o) ==
    CASE o.net = "crash" -> Raise("RuntimeError")
      [] o.net = "connect_fail" -> Raise("APIConnectionError")
      [] o.net = "timeout" -> Raise("APITimeoutError")
      [] o.status # 200 -> Raise("APIStatusError")
      [] o.body = "not_json" -> Raise("JSONDecodeError")
      [] o.body = "wrong_shape" -> Raise("TypeError")
      [] o.body = "missing" -> Raise("IndexError")
      [] o.body = "text" -> Return(PyStr(PyStrip(TitleText)))
      [] o.body = "text_echo" ->
            Return(PyStr(PyStrip(first_message \o " " \o TitleText)))
      [] o.body = "empty_text" -> Return(PyStr(PyStrip("")))
      [] OTHER -> Raise("AttributeError")

openai_generate_chat_title(first_message, o) ==
    LET r == OpenAITitleTry(first_message, o) IN
    IF Raised(r) /\ IsInstance(r.raised, "Exception")
    THEN Return(PyStr(ChatAboutTitle(first_message)))
    ELSE r

(***************************************************************************)
(* app/main.py: the adapter instances and their selection                  *)
(***************************************************************************)
AiServiceValues == {"ollama", "huggingface", "openai", "other"}

\* the module-level ChatbotService() of chatbot_service.py raises without a key,
\* and app/main.py imports that module
ImportSucceeds == openai_api_key

\* get_ai_service whose else branch returns chatbot_service
get_ai_service_default_openai(setting) ==
    IF setting = "ollama" THEN "ollama_service"
    ELSE IF setting = "huggingface" THEN "huggingface_service"
    ELSE "chatbot_service"

\* lines 24-34
get_ai_service(setting) ==
    IF setting = "ollama" THEN "ollama_service"
    ELSE IF setting = "huggingface" THEN "huggingface_service"
    ELSE IF setting = "openai" THEN "chatbot_service"
    ELSE "ollama_service"

Variants ==
    {"ollama_service", "features_ollama_service", "huggingface_service",
     "chatbot_service"}

generate_response(service, message, chat_history, o) ==
    CASE service = "ollama_service" ->
            ollama_generate_response(message, chat_history, o)
      [] service = "features_ollama_service" ->
            features_ollama_generate_response(message, chat_history, o)
      [] service = "huggingface_service" ->
            huggingface_generate_response(message, chat_history, o)
      [] OTHER -> openai_generate_response(message, chat_history, o)

generate_chat_title(service, first_message, o) ==
    CASE service = "ollama_service" -> ollama_generate_chat_title(first_message, o)
      [] service = "huggingface_service" ->
            huggingface_generate_chat_title(first_message, o)
      [] OTHER -> openai_generate_chat_title(first_message, o)

(***************************************************************************)
(* Requests and responses                                                  *)
(***************************************************************************)
NoOutcome == Outcome("none", 0, "none")

\* a chat turn (POST /chat) of process p: where it stands, and its locals
IdleTurn ==
    [pc |-> "idle", caller |-> 0, req_chat_id |-> None, message |-> "",
     kind |-> "none", chat |-> 0, chat_history |-> <<>>, user_message |-> 0,
     outcome |-> NoOutcome, bot_response |-> PyNone, bot_message |-> 0,
     title |-> None]

\* the response to the latest request (NoResponse while it is handled): endpoint, caller, the chat id the request named (0: none),
\* what that id was to the caller (missing, foreign, own; new: a chat was created),
\* status and detail, the exception behind an error status, and for POST /chat
\* the turn that ended
Response(ep, caller, chat_id, kind, status, detail, error, t) ==
    [ep |-> ep, caller |-> caller, chat_id |-> chat_id, kind |-> kind,
     status |-> status, detail |-> detail, error |-> error, turn |-> t]

NoResponse == Response("none", 0, 0, "none", 0, "", "", IdleTurn)

ChatIdInputs == {None} \cup {Some(i) : i \in 0..(MaxChats + 1)}

\* what a chat id is to the caller
KindOf(cs, user_id, chat_id) ==
    LET chat == get_chat(cs, chat_id) IN
    IF IsNone(chat) THEN "missing"
    ELSE IF Val(chat).user_id # user_id THEN "foreign"
    ELSE "own"

\* Python truthiness of an Optional[int]
Truthy(o) == ~IsNone(o) /\ Val(o) # 0

\* response_model=schemas.ChatResponse: the second class of that name in
\* schemas.py (user_message, bot_message, chat_id) replaces the first, and the
\* handlers of GET /chats, GET /chats/{id} and PUT /chats/{id}/title return Chat rows
ChatResponseFields == {"user_message", "bot_message", "chat_id"}

ValidatesAsChatResponse(row) == ChatResponseFields \subseteq DOMAIN row

NotFound == [status |-> 404, detail |-> "Chat not found", error |-> "HTTPException"]

ChatFailed(error) ==
    [status |-> 500, detail |-> "An error occurred while processing your message",
     error |-> error]

InvalidResponse ==
    [status |-> 500, detail |-> "Internal Server Error",
     error |-> "ResponseValidationError"]

Ok == [status |-> 200, detail |-> "", error |-> ""]

(***************************************************************************)
(* POST /chat, app/main.py lines 155-218                                   *)
(***************************************************************************)
\* lines 169-179 without the test of the chat's owner at line 172
ResolveChat_any_owner(cs, user_id, req_chat_id, now) ==
    IF Truthy(req_chat_id)
    THEN LET chat == get_chat(cs, Val(req_chat_id)) IN
         IF IsNone(chat)
         THEN [raised |-> "HTTPException", status |-> 404, chat |-> 0, chats |-> cs]
         ELSE [raised |-> "", status |-> 0, chat |-> Val(chat).id, chats |-> cs]
    ELSE [raised |-> "", status |-> 0, chat |-> NextId(cs),
          chats |-> create_chat(cs, user_id, now)]

\* lines 169-179: the chat of the turn, or the HTTPException raised in the try block
ResolveChat(cs, user_id, req_chat_id, now) ==
    IF Truthy(req_chat_id)
    THEN LET chat == get_chat(cs, Val(req_chat_id)) IN
         IF IsNone(chat) \/ Val(chat).user_id # user_id
         THEN [raised |-> "HTTPException", status |-> 404, chat |-> 0, chats |-> cs]
         ELSE [raised |-> "", status |-> 0, chat |-> Val(chat).id, chats |-> cs]
    ELSE [raised |-> "", status |-> 0, chat |-> NextId(cs),
          chats |-> create_chat(cs, user_id, now)]

\* lines 213-218 with an except HTTPException: raise clause before them
ChatExcept_http_passes(raised, status) ==
    IF raised = "HTTPException"
    THEN [status |-> status, detail |-> "Chat not found", error |-> raised]
    ELSE ChatFailed(raised)

\* lines 213-218: except Exception catches whatever the try block raised,
\* the HTTPException of line 173 included
ChatExcept(raised, status) ==
    IF IsInstance(raised, "Exception") THEN ChatFailed(raised)
    ELSE [status |-> status, detail |-> "Chat not found", error |-> raised]

EndTurn(p, r) ==
    /\ resp' = Response("POST /chat", turn[p].caller,
                        IF IsNone(turn[p].req_chat_id) THEN 0
                        ELSE Val(turn[p].req_chat_id),
                        turn[p].kind, r.status, r.detail, r.error, turn[p])
    /\ turn' = [turn EXCEPT ![p] = IdleTurn]

Chat(p, u, req_chat_id, message) ==
    /\ ImportSucceeds
    /\ turn[p].pc = "idle"
    /\ Cardinality(messages) + 2 <= MaxMessages
    /\ clock + (IF Truthy(req_chat_id) THEN 3 ELSE 4) <= MaxClock
    /\ Truthy(req_chat_id) \/ Cardinality(chats) < MaxChats
    /\ LET r == ResolveChat(chats, u.id, req_chat_id, clock)
           t == [IdleTurn EXCEPT !.caller = u.id, !.req_chat_id = req_chat_id,
                                 !.message = message]
       IN  IF r.raised # ""
           THEN /\ resp' = Response("POST /chat", u.id, Val(req_chat_id),
                                    KindOf(chats, u.id, Val(req_chat_id)),
                                    ChatExcept(r.raised, r.status).status,
                                    ChatExcept(r.raised, r.status).detail,
                                    ChatExcept(r.raised, r.status).error, t)
                /\ UNCHANGED <<chats, clock, turn>>
           ELSE /\ chats' = r.chats
                /\ clock' = IF r.chats = chats THEN clock ELSE clock + 1
                /\ turn' = [turn EXCEPT ![p] =
                              [t EXCEPT !.pc = "fetch", !.chat = r.chat,
                                        !.kind = IF r.chats = chats THEN "own"
                                                 ELSE "new"]]
                /\ resp' = NoResponse
    /\ UNCHANGED <<tokens, ai_service, openai_api_key, users, messages, call>>

\* line 182 as it would read below the create_message of line 185
history_for_turn_after_persist(ms, t, now) ==
    get_chat_history_for_ai(create_message(ms, t.chat, t.message, USER, now), t.chat)

\* line 182, which runs before the create_message of line 185
history_for_turn(ms, t, now) == get_chat_history_for_ai(ms, t.chat)

ChatFetchHistory(p) ==
    /\ turn[p].pc = "fetch"
    /\ turn' = [turn EXCEPT ![p].pc = "persist_user",
                            ![p].chat_history =
                                history_for_turn(messages, turn[p], clock)]
    /\ UNCHANGED <<tokens, ai_service, openai_api_key, users, chats, messages, clock, resp,
                   call>>

\* lines 185-187
ChatPersistUser(p) ==
    /\ turn[p].pc = "persist_user"
    /\ messages' = create_message(messages, turn[p].chat, turn[p].message, USER, clock)
    /\ chats' = touch_chat(chats, turn[p].chat, clock)
    /\ clock' = clock + 1
    /\ turn' = [turn EXCEPT ![p].pc = "generate",
                            ![p].user_message = NextId(messages)]
    /\ UNCHANGED <<tokens, ai_service, openai_api_key, users, resp, call>>

\* lines 190-195
ChatGenerate(p, o) ==
    /\ turn[p].pc = "generate"
    /\ LET r == generate_response(get_ai_service(ai_service), turn[p].message,
                                  turn[p].chat_history, o)
       IN  IF Raised(r)
           THEN /\ EndTurn(p, ChatExcept(r.raised, 500))
           ELSE /\ turn' = [turn EXCEPT ![p].pc = "persist_bot",
                                        ![p].outcome = o,
                                        ![p].bot_response = r.value]
                /\ UNCHANGED resp
    /\ UNCHANGED <<tokens, ai_service, openai_api_key, users, chats, messages, clock, call>>

\* what the content column (Text, nullable=False) makes of a bound value:
\* None is refused, a number is stored with text affinity
ContentStored(val) ==
    IF val.t = "NoneType" THEN Raise("IntegrityError") ELSE Return(PyStr(val.v))

\* lines 198-200; chat.id is reloaded after the commit of the first create_message
ChatPersistBot(p) ==
    /\ turn[p].pc = "persist_bot"
    /\ LET stored == ContentStored(turn[p].bot_response) IN
       IF IsNone(get_chat(chats, turn[p].chat))
       THEN /\ EndTurn(p, ChatExcept("ObjectDeletedError", 500))
            /\ UNCHANGED <<chats, messages, clock>>
       ELSE IF Raised(stored)
       THEN /\ EndTurn(p, ChatExcept(stored.raised, 500))
            /\ UNCHANGED <<chats, messages, clock>>
       ELSE /\ messages' = create_message(messages, turn[p].chat, stored.value.v, AI,
                                          clock)
            /\ chats' = touch_chat(chats, turn[p].chat, clock)
            /\ clock' = clock + 1
            /\ turn' = [turn EXCEPT ![p].pc = "title",
                                    ![p].bot_message = NextId(messages)]
            /\ UNCHANGED resp
    /\ UNCHANGED <<tokens, ai_service, openai_api_key, users, call>>

TitleOutcomes ==
    {Outcome("response", 200, "text"), Outcome("response", 200, "empty_text")}

\* not chat.title
NoTitle(chat) == IsNone(chat.title) \/ Val(chat.title) = ""

\* line 203 without its second test
should_title_ignoring_history(chat, chat_history) == NoTitle(chat)

\* line 203
should_title(chat, chat_history) == NoTitle(chat) /\ Len(chat_history) = 0

\* lines 203-204; chat.title is reloaded after the commit of the second create_message
ChatTitle(p, o) ==
    /\ turn[p].pc = "title"
    /\ LET chat == get_chat(chats, turn[p].chat) IN
       IF IsNone(chat)
       THEN EndTurn(p, ChatExcept("ObjectDeletedError", 500))
       ELSE IF should_title(Val(chat), turn[p].chat_history)
       THEN LET r == generate_chat_title(get_ai_service(ai_service),
                                         turn[p].message, o)
            IN  IF Raised(r) THEN EndTurn(p, ChatExcept(r.raised, 500))
                ELSE /\ turn' = [turn EXCEPT ![p].pc = "title_write",
                                             ![p].title = Some(r.value.v)]
                     /\ UNCHANGED resp
       ELSE /\ turn' = [turn EXCEPT ![p].pc = "respond"]
            /\ UNCHANGED resp
    /\ UNCHANGED <<tokens, ai_service, openai_api_key, users, chats, messages, clock, call>>

\* line 205
ChatTitleWrite(p) ==
    /\ turn[p].pc = "title_write"
    /\ chats' = update_chat_title(chats, turn[p].chat, Val(turn[p].title), clock)
    /\ clock' = clock + 1
    /\ turn' = [turn EXCEPT ![p].pc = "respond"]
    /\ UNCHANGED <<tokens, ai_service, openai_api_key, users, messages, resp, call>>

\* lines 207-211
ChatRespond(p) ==
    /\ turn[p].pc = "respond"
    /\ EndTurn(p, Ok)
    /\ UNCHANGED <<tokens, ai_service, openai_api_key, users, chats, messages, clock, call>>

\* a statement of the try block that goes to the database fails (the session's
\* connection is lost, the database is locked): lines 182, 185, 198, 205
ChatInternalError(p) ==
    /\ turn[p].pc \in {"fetch", "persist_user", "persist_bot", "title_write"}
    /\ EndTurn(p, ChatExcept("OperationalError", 500))
    /\ UNCHANGED <<tokens, ai_service, openai_api_key, users, chats, messages, clock, call>>

(***************************************************************************)
(* The other endpoints of app/main.py. Each handler is one operator: the   *)
(* response and the store it leaves, from the store, the caller and the    *)
(* request.                                                                *)
(***************************************************************************)
Handled(r, cs, ms) ==
    [status |-> r.status, detail |-> r.detail, error |-> r.error,
     chats |-> cs, messages |-> ms]

\* GET /chats/{chat_id}, lines 232-245
get_chat_endpoint(cs, ms, user_id, chat_id) ==
    LET chat == get_chat(cs, chat_id) IN
    IF IsNone(chat) \/ Val(chat).user_id # user_id THEN Handled(NotFound, cs, ms)
    ELSE IF ValidatesAsChatResponse(Val(chat)) THEN Handled(Ok, cs, ms)
    ELSE Handled(InvalidResponse, cs, ms)

\* DELETE /chats/{chat_id} telling a chat of another user from a missing one
delete_chat_endpoint_forbidden(cs, ms, user_id, chat_id) ==
    LET chat == get_chat(cs, chat_id) IN
    IF IsNone(chat) THEN Handled(NotFound, cs, ms)
    ELSE IF Val(chat).user_id # user_id
    THEN Handled([status |-> 403, detail |-> "Not authorized",
                  error |-> "HTTPException"], cs, ms)
    ELSE Handled([Ok EXCEPT !.detail = "Chat deleted successfully"],
                 delete_chat_rows(cs, chat_id), delete_chat_messages(ms, chat_id))

\* DELETE /chats/{chat_id}, lines 248-269
delete_chat_endpoint(cs, ms, user_id, chat_id) ==
    LET chat == get_chat(cs, chat_id) IN
    IF IsNone(chat) \/ Val(chat).user_id # user_id THEN Handled(NotFound, cs, ms)
    ELSE Handled([Ok EXCEPT !.detail = "Chat deleted successfully"],
                 delete_chat_rows(cs, chat_id), delete_chat_messages(ms, chat_id))

\* PUT /chats/{chat_id}/title, lines 272-288
update_chat_title_endpoint(cs, ms, user_id, chat_id, title, now) ==
    LET chat == get_chat(cs, chat_id)
        updated == update_chat_title(cs, chat_id, title, now)
    IN
    IF IsNone(chat) \/ Val(chat).user_id # user_id THEN Handled(NotFound, cs, ms)
    ELSE IF ValidatesAsChatResponse(Val(get_chat(updated, chat_id)))
    THEN Handled(Ok, updated, ms)
    ELSE Handled(InvalidResponse, updated, ms)

\* GET /chats, lines 222-229: the rows the query returned, validated against
\* List[schemas.ChatResponse]
get_chats_endpoint(rows) ==
    IF \A i \in DOMAIN rows : ValidatesAsChatResponse(rows[i]) THEN Ok
    ELSE InvalidResponse

\* the ids a request path may name: every id in use and one id not in use
ChatIds == 1..(MaxChats + 1)

GetChat(u, chat_id) ==
    /\ ImportSucceeds
    /\ LET r == get_chat_endpoint(chats, messages, u.id, chat_id) IN
       resp' = Response("GET /chats/{chat_id}", u.id, chat_id,
                        KindOf(chats, u.id, chat_id), r.status, r.detail, r.error,
                        IdleTurn)
    /\ UNCHANGED <<tokens, ai_service, openai_api_key, users, chats, messages, clock, turn,
                   call>>

DeleteChat(u, chat_id) ==
    /\ ImportSucceeds
    /\ LET r == delete_chat_endpoint(chats, messages, u.id, chat_id) IN
       /\ resp' = Response("DELETE /chats/{chat_id}", u.id, chat_id,
                           KindOf(chats, u.id, chat_id), r.status, r.detail, r.error,
                           IdleTurn)
       /\ chats' = r.chats
       /\ messages' = r.messages
    /\ UNCHANGED <<tokens, ai_service, openai_api_key, users, clock, turn, call>>

UpdateChatTitle(u, chat_id, title) ==
    /\ ImportSucceeds
    /\ clock + 1 <= MaxClock
    /\ LET r == update_chat_title_endpoint(chats, messages, u.id, chat_id, title,
                                           clock)
       IN
       /\ resp' = Response("PUT /chats/{chat_id}/title", u.id, chat_id,
                           KindOf(chats, u.id, chat_id), r.status, r.detail, r.error,
                           IdleTurn)
       /\ chats' = r.chats
       /\ clock' = IF r.chats = chats THEN clock ELSE clock + 1
    /\ UNCHANGED <<tokens, ai_service, openai_api_key, users, messages, turn, call>>

\* the response to GET /chats: a response with the rows the handler returned
ListResponse(caller, rows, r) ==
    [ep |-> "GET /chats", caller |-> caller, chat_id |-> 0, kind |-> "none",
     status |-> r.status, detail |-> r.detail, error |-> r.error,
     turn |-> IdleTurn, rows |-> rows]

GetChats(u) ==
    /\ ImportSucceeds
    /\ \E rows \in get_user_chats(chats, u.id, ChatsLimit) :
          resp' = ListResponse(u.id, rows, get_chats_endpoint(rows))
    /\ UNCHANGED <<tokens, ai_service, openai_api_key, users, chats, messages, clock, turn,
                   call>>

(***************************************************************************)
(* The service: requests are handled one at a time                         *)
(***************************************************************************)
\* the latest call observed on its own (outside a chat turn): the function, its
\* arguments and what it gave back
Call(service, chat_id, message, chat_history, o, result) ==
    [service |-> service, chat_id |-> chat_id, message |-> message,
     chat_history |-> chat_history, outcome |-> o, result |-> result]

NoCall == Call("none", 0, "", <<>>, NoOutcome, Return(PyNone))

\* the users table once every registration of Registrations has been made
RegisteredUsers ==
    {[id |-> 1, username |-> "alice", email |-> "a@x.io",
      hashed_password |-> hash_password("pw1", "s1")],
     [id |-> 2, username |-> "bob", email |-> "b@x.io",
      hashed_password |-> hash_password("pw2", "s2")]}

\* the service with its users registered and no chat yet
Init ==
    /\ ai_service \in AiServiceValues
    /\ openai_api_key \in BOOLEAN
    /\ users = RegisteredUsers
    /\ chats = {}
    /\ messages = {}
    /\ clock = 1
    /\ turn = [p \in Procs |-> IdleTurn]
    /\ resp = NoResponse
    /\ call = NoCall
    /\ tokens = {}

InFlight(p) == turn[p].pc # "idle"

\* no chat turn is under way
Quiet == \A p \in Procs : ~InFlight(p)

Next ==
    \/ \E p \in SeqProcs, u \in users, c \in ChatIdInputs, m \in UserMessages :
          Quiet /\ Chat(p, u, c, m)
    \/ \E p \in SeqProcs : ChatFetchHistory(p)
    \/ \E p \in SeqProcs : ChatPersistUser(p)
    \/ \E p \in SeqProcs, o \in TurnOutcomes : ChatGenerate(p, o)
    \/ \E p \in SeqProcs : ChatPersistBot(p)
    \/ \E p \in SeqProcs, o \in TitleOutcomes : ChatTitle(p, o)
    \/ \E p \in SeqProcs : ChatTitleWrite(p)
    \/ \E p \in SeqProcs : ChatRespond(p)
    \/ \E p \in SeqProcs : ChatInternalError(p)
    \/ \E u \in users : Quiet /\ GetChats(u)
    \/ \E u \in users, c \in ChatIds : Quiet /\ GetChat(u, c)
    \/ \E u \in users, c \in ChatIds : Quiet /\ DeleteChat(u, c)
    \/ \E u \in users, c \in ChatIds, t \in Titles :
          Quiet /\ UpdateChatTitle(u, c, t)

Spec == Init /\ [][Next]_vars

(***************************************************************************)
(* The adapters on their own: generate_response of each of the four        *)
(* adapter classes, called with a message, a history and a backend outcome *)
(***************************************************************************)
MaxHistory == 2

HistoryEntries == {[content |-> "Hello", sender |-> USER],
                   [content |-> ModelText, sender |-> AI]}

RECURSIVE SeqsUpTo(_, _)
SeqsUpTo(S, n) ==
    IF n = 0 THEN {<<>>}
    ELSE LET shorter == SeqsUpTo(S, n - 1)
         IN  shorter \cup {Append(h, e) : h \in {x \in shorter : Len(x) = n - 1},
                                          e \in S}

AdapterHistories == SeqsUpTo(HistoryEntries, MaxHistory)

GenerateResponse(service, message, chat_history, o) ==
    /\ call' = Call(service, 0, message, chat_history, o,
                    generate_response(service, message, chat_history, o))
    /\ UNCHANGED <<tokens, ai_service, openai_api_key, users, chats, messages, clock, turn,
                   resp>>

AdapterInit ==
    /\ ai_service = "ollama"
    /\ openai_api_key = TRUE
    /\ users = RegisteredUsers
    /\ chats = {}
    /\ messages = {}
    /\ clock = 1
    /\ turn = [p \in Procs |-> IdleTurn]
    /\ resp = NoResponse
    /\ call = NoCall
    /\ tokens = {}

AdapterNext ==
    \E service \in Variants, m \in UserMessages, h \in AdapterHistories,
       o \in BackendOutcomes : GenerateResponse(service, m, h, o)

SpecAdapter == AdapterInit /\ [][AdapterNext]_vars

(***************************************************************************)
(* The message table on its own: rows written by create_message as chat    *)
(* turns write them (per chat a USER row, then an AI row, each with its own*)
(* text), and get_chat_history_for_ai read at any point                    *)
(***************************************************************************)
MaxRows == 12

CrudChats == {1, 2}

CrudCreateMessage(chat_id) ==
    /\ Cardinality(messages) < MaxRows
    /\ LET n == Cardinality({m \in messages : m.chat_id = chat_id})
           sender == IF n % 2 = 0 THEN USER ELSE AI
       IN  messages' = create_message(messages, chat_id,
                                      "m" \o ToString(NextId(messages)), sender, clock)
    /\ chats' = touch_chat(chats, chat_id, clock)
    /\ clock' = clock + 1
    /\ call' = NoCall
    /\ UNCHANGED <<tokens, ai_service, openai_api_key, users, turn, resp>>

CrudGetHistory(chat_id) ==
    /\ call' = Call("get_chat_history_for_ai", chat_id, "",
                    get_chat_history_for_ai(messages, chat_id), NoOutcome,
                    Return(PyNone))
    /\ UNCHANGED <<tokens, ai_service, openai_api_key, users, chats, messages, clock, turn,
                   resp>>

\* both users have opened a chat
CrudInit ==
    /\ ai_service = "ollama"
    /\ openai_api_key = TRUE
    /\ users = RegisteredUsers
    /\ chats = create_chat(create_chat({}, 1, 1), 2, 2)
    /\ messages = {}
    /\ clock = 3
    /\ turn = [p \in Procs |-> IdleTurn]
    /\ resp = NoResponse
    /\ call = NoCall
    /\ tokens = {}

CrudNext ==
    \/ \E c \in CrudChats : CrudCreateMessage(c)
    \/ \E c \in CrudChats : CrudGetHistory(c)

SpecCrud == CrudInit /\ [][CrudNext]_vars

(***************************************************************************)
(* Properties of the chat turn and of the chat endpoints                   *)
(***************************************************************************)
ChatRow(chat_id) == Val(get_chat(chats, chat_id))

ChatExists(chat_id) == ~IsNone(get_chat(chats, chat_id))

\* a POST /chat that named a chat the caller cannot use has been answered
ChatNotFoundAnswered ==
    resp.ep = "POST /chat" /\ resp.kind \in {"missing", "foreign"}

\* C1: POST /chat naming a chat that does not exist, or that another user
\* owns, is answered 404
C1_ChatNotFoundIs404 == ChatNotFoundAnswered => resp.status = 404

\* the responses of the four requests that name a chat by id, as the handlers
\* compute them from the store
NamedChatResponse(ep, user_id, chat_id) ==
    CASE ep = "POST /chat" ->
            LET r == ResolveChat(chats, user_id, Some(chat_id), clock)
                e == ChatExcept(r.raised, r.status)
            IN  Handled(IF r.raised = "" THEN Ok ELSE e, r.chats, messages)
      [] ep = "GET /chats/{chat_id}" ->
            get_chat_endpoint(chats, messages, user_id, chat_id)
      [] ep = "DELETE /chats/{chat_id}" ->
            delete_chat_endpoint(chats, messages, user_id, chat_id)
      [] OTHER ->
            update_chat_title_endpoint(chats, messages, user_id, chat_id, "Plans",
                                       clock)

NamedChatEndpoints ==
    {"POST /chat", "GET /chats/{chat_id}", "DELETE /chats/{chat_id}",
     "PUT /chats/{chat_id}/title"}

\* C2: a request naming a chat of another user gets the response (status and
\* body) of a request naming a chat that does not exist, and neither changes the
\* store; the response last sent for such a request is that response
C2_ForeignLooksMissing ==
    /\ \A ep \in NamedChatEndpoints, u \in users, c1 \in ChatIds, c2 \in ChatIds :
          (KindOf(chats, u.id, c1) = "foreign" /\ KindOf(chats, u.id, c2) = "missing")
          => LET r1 == NamedChatResponse(ep, u.id, c1)
                 r2 == NamedChatResponse(ep, u.id, c2)
             IN  /\ r1.status = r2.status
                 /\ r1.detail = r2.detail
                 /\ r1.chats = chats /\ r1.messages = messages
                 /\ r2.chats = chats /\ r2.messages = messages
    /\ (resp.ep \in NamedChatEndpoints /\ resp.kind \in {"missing", "foreign"})
          => \A u \in users, c \in ChatIds :
                KindOf(chats, u.id, c) \in {"missing", "foreign"}
                => /\ resp.status = NamedChatResponse(resp.ep, u.id, c).status
                   /\ resp.detail = NamedChatResponse(resp.ep, u.id, c).detail

\* a request naming another user's chat has been answered while a chat id is free
C2_Witness ==
    /\ resp.ep = "DELETE /chats/{chat_id}"
    /\ resp.kind = "foreign"
    /\ ChatExists(resp.chat_id)
    /\ \E u \in users, c \in ChatIds : KindOf(chats, u.id, c) = "missing"

\* a turn that was sent no chat id has been answered 200
NewChatTurnDone ==
    resp.ep = "POST /chat" /\ resp.status = 200 /\ IsNone(resp.turn.req_chat_id)

ChatIdsOf(cs) == {c.id : c \in cs}

\* C3: a successful POST /chat without chat_id has created exactly one chat, of
\* the caller; that chat holds exactly two messages, in sent-at order the USER
\* message with the request's text and the AI message with the adapter's
\* reply; and the turn has set the chat's title
C3_NewChatTurn ==
    /\ [](NewChatTurnDone =>
            /\ ChatExists(resp.turn.chat)
            /\ ChatRow(resp.turn.chat).user_id = resp.caller
            /\ LET ms == get_chat_messages(messages, resp.turn.chat) IN
               /\ Len(ms) = 2
               /\ ms[1].sender = USER /\ ms[1].content = resp.turn.message
               /\ ms[2].sender = AI /\ ms[2].content = resp.turn.bot_response.v
               /\ ms[1].sent_at < ms[2].sent_at
            /\ ~IsNone(resp.turn.title)
            /\ ChatRow(resp.turn.chat).title = resp.turn.title)
    /\ [][\A p \in Procs :
            /\ (turn[p].pc = "idle" /\ turn'[p].pc = "fetch"
                /\ IsNone(turn'[p].req_chat_id))
               => /\ Cardinality(chats') = Cardinality(chats) + 1
                  /\ ChatIdsOf(chats') = ChatIdsOf(chats) \cup {turn'[p].chat}
                  /\ turn'[p].chat \notin ChatIdsOf(chats)
            /\ turn[p].pc # "idle" => ChatIdsOf(chats') = ChatIdsOf(chats)]_vars

C3_Witness == NewChatTurnDone /\ Cardinality(chats) = 2

TitleOf(cs, chat_id) ==
    IF IsNone(get_chat(cs, chat_id)) THEN None ELSE Val(get_chat(cs, chat_id)).title

\* the messages of the turn's chat that the turn itself did not write
PriorMessages(p) ==
    {m \in messages : /\ m.chat_id = turn[p].chat
                      /\ m.id \notin {turn[p].user_message, turn[p].bot_message}}

\* C4: a turn asks for a title (title -> title_write) and writes it
\* (title_write -> respond) only when the chat has no title and the history the
\* turn fetched was empty; no step of a turn on a chat that already had messages
\* changes the chat's title
C4_TitleOnlyOnFirstTurn ==
    [][\A p \in Procs :
        /\ (turn[p].pc = "title" /\ turn'[p].pc = "title_write")
           => /\ NoTitle(ChatRow(turn[p].chat))
              /\ turn[p].chat_history = <<>>
        /\ (turn[p].pc = "title_write" /\ turn'[p].pc = "respond")
           => /\ NoTitle(ChatRow(turn[p].chat))
              /\ turn[p].chat_history = <<>>
              /\ PriorMessages(p) = {}
        /\ (turn[p].pc # "idle" /\ TitleOf(chats', turn[p].chat) # TitleOf(chats, turn[p].chat))
           => /\ turn[p].pc = "title_write"
              /\ PriorMessages(p) = {}
        /\ (turn[p].pc # "idle" /\ PriorMessages(p) # {})
           => TitleOf(chats', turn[p].chat) = TitleOf(chats, turn[p].chat)]_vars

\* a second turn on a chat has been answered 200, and the chat kept its title
C4_Witness ==
    /\ resp.ep = "POST /chat" /\ resp.status = 200 /\ resp.kind = "own"
    /\ Len(resp.turn.chat_history) = 2
    /\ IsNone(resp.turn.title)
    /\ ChatExists(resp.turn.chat)
    /\ ~IsNone(ChatRow(resp.turn.chat).title)

\* what each adapter answers when the backend cannot be reached
ServiceUnavailableReply(service) ==
    CASE service = "ollama_service" ->
            "Ollama is not running. Please start Ollama first: 'ollama serve'"
      [] service = "huggingface_service" ->
            "I apologize, but I'm having trouble generating a response right now."
      [] OTHER ->
            "I apologize, but I'm having trouble generating a response right now. Please try again."

MessageById(id) == CHOOSE m \in messages : m.id = id

\* the turn ended on a failure of the store, not of the generation
StoreFailed(r) == r.error \in {"OperationalError", "ObjectDeletedError"}

\* C5: a turn whose generation call could not connect hands on the adapter's
\* fixed string as the reply; unless the store fails the turn is answered 200,
\* and the AI message it persisted has that string as content
C5_ConnectFailureStillSucceeds ==
    /\ \A p \in Procs :
          (turn[p].pc \notin {"idle", "fetch", "persist_user", "generate"}
           /\ turn[p].outcome.net = "connect_fail")
          => turn[p].bot_response
               = PyStr(ServiceUnavailableReply(get_ai_service(ai_service)))
    /\ (resp.ep = "POST /chat" /\ resp.turn.outcome.net = "connect_fail"
        /\ ~StoreFailed(resp))
          => /\ resp.status = 200
             /\ \E m \in messages :
                   /\ m.id = resp.turn.bot_message
                   /\ m.chat_id = resp.turn.chat
                   /\ m.sender = AI
                   /\ m.content = ServiceUnavailableReply(get_ai_service(ai_service))

C5_Witness ==
    /\ resp.ep = "POST /chat" /\ resp.turn.outcome.net = "connect_fail"
    /\ resp.status = 200
    /\ ai_service = "ollama"

\* C8: the reply generate_response hands to the turn is text, and no turn
\* fails on persisting it
C8_ReplyIsText ==
    /\ \A p \in Procs :
          turn[p].pc = "persist_bot" => turn[p].bot_response.t = "str"
    /\ resp.error # "IntegrityError"

\* C10: the history a turn hands to generate_response is the history of the
\* chat without the turn's own USER message, which is already stored when the
\* adapter is called; the prompt built from it names the new message once,
\* after the lines of the earlier messages
C10_HistoryBeforeOwnMessage ==
    \A p \in Procs :
       turn[p].pc = "generate"
       => LET own == {m \in messages : m.id = turn[p].user_message}
              prior == get_chat_history_for_ai(messages \ own, turn[p].chat)
          IN  /\ Cardinality(own) = 1
              /\ \A m \in own : m.chat_id = turn[p].chat /\ m.content = turn[p].message
              /\ turn[p].chat_history = prior
              /\ Len(turn[p].chat_history)
                   = Cardinality({m \in messages : m.chat_id = turn[p].chat}) - 1
              /\ ollama_prepare_context(turn[p].message, turn[p].chat_history)
                   = OllamaPreamble \o OllamaLines(prior)
                     \o "Human: " \o turn[p].message \o "\nAssistant:"

\* a turn on a chat that holds earlier messages is about to call the adapter
C10_Witness ==
    \E p \in Procs : turn[p].pc = "generate" /\ Len(turn[p].chat_history) = 2

(***************************************************************************)
(* Properties of the adapters                                              *)
(***************************************************************************)
AdapterCalled == call.service \in Variants

\* C6: generate_response of every adapter hands back a value, whatever the
\* backend does
C6_GenerateResponseNeverRaises == AdapterCalled => ~Raised(call.result)

\* a body that is not JSON has been handled by the HuggingFace adapter
C6_Witness ==
    /\ call.service = "huggingface_service"
    /\ call.outcome.body = "not_json"
    /\ ~Raised(call.result)

\* the reply of the called adapter to backend outcome o, for the call's arguments
ReplyTo(o) ==
    generate_response(call.service, call.message, call.chat_history, o).value.v

ConnectFailure == Outcome("connect_fail", 0, "none")
Timeout == Outcome("timeout", 0, "none")
Unexpected == Outcome("crash", 0, "none")
BadStatus(st) == Outcome("response", st, "none")

\* C7 as the specification states it: for each adapter the four failure kinds
\* have four pairwise distinct replies, none depending on the status code
C7_FourDistinctFixedReplies ==
    AdapterCalled =>
       /\ \A s1 \in ErrorStatuses, s2 \in ErrorStatuses :
             ReplyTo(BadStatus(s1)) = ReplyTo(BadStatus(s2))
       /\ \A st \in ErrorStatuses :
             Cardinality({ReplyTo(ConnectFailure), ReplyTo(Timeout),
                          ReplyTo(BadStatus(st)), ReplyTo(Unexpected)}) = 4

\* C7 as the code has it: every failure is answered with a text that does not
\* depend on the message or the history. The feature-layout Ollama adapter has a
\* reply of its own for each of the four kinds, the one for a bad status ending
\* in the status code; the Ollama adapter of app/services answers a timeout as
\* an unexpected exception; the HuggingFace adapter answers connect failure,
\* timeout and unexpected exception alike, and a bad status with one text for
\* 503 and another for the rest; the OpenAI adapter has one reply for all.
C7_FailureReplies ==
    AdapterCalled =>
       /\ \A o \in FailureOutcomes :
             /\ generate_response(call.service, call.message, call.chat_history, o).value.t
                  = "str"
             /\ ReplyTo(o) # ""
             /\ ReplyTo(o) = generate_response(call.service, "", <<>>, o).value.v
       /\ call.outcome \in FailureOutcomes => call.result.value.v = ReplyTo(call.outcome)
       /\ call.service = "features_ollama_service" =>
             /\ \A st \in ErrorStatuses :
                   /\ Cardinality({ReplyTo(ConnectFailure), ReplyTo(Timeout),
                                   ReplyTo(BadStatus(st)), ReplyTo(Unexpected)}) = 4
                   /\ ReplyTo(BadStatus(st))
                        = "I'm having trouble connecting to the AI service. Status: "
                          \o ToString(st)
       /\ call.service = "ollama_service" =>
             /\ ReplyTo(Timeout) = ReplyTo(Unexpected)
             /\ \A st \in ErrorStatuses :
                   /\ Cardinality({ReplyTo(ConnectFailure), ReplyTo(BadStatus(st)),
                                   ReplyTo(Unexpected)}) = 3
                   /\ ReplyTo(BadStatus(st)) = ReplyTo(BadStatus(500))
       /\ call.service = "huggingface_service" =>
             /\ ReplyTo(ConnectFailure) = ReplyTo(Unexpected)
             /\ ReplyTo(Timeout) = ReplyTo(Unexpected)
             /\ ReplyTo(BadStatus(404)) = ReplyTo(BadStatus(500))
             /\ Cardinality({ReplyTo(BadStatus(503)), ReplyTo(BadStatus(500)),
                             ReplyTo(Unexpected)}) = 3
       /\ call.service = "chatbot_service" =>
             Cardinality({ReplyTo(o) : o \in FailureOutcomes}) = 1

\* the feature-layout Ollama adapter has answered a timeout
C7_Witness ==
    /\ call.service = "features_ollama_service"
    /\ call.outcome = Timeout
    /\ call.result.value.v # ReplyTo(Unexpected)

(***************************************************************************)
(* Properties of the message table                                         *)
(***************************************************************************)
RowsOf(ms, chat_id) == {m \in ms : m.chat_id = chat_id}

\* the rows of a chat that fewer than HistoryLimit rows of the chat are newer than
NewestRows(ms, chat_id) ==
    {m \in RowsOf(ms, chat_id) :
        Cardinality({x \in RowsOf(ms, chat_id) : x.sent_at > m.sent_at}) < HistoryLimit}

\* h lists exactly the rows of R, oldest first
ListsAscending(h, R) ==
    /\ Len(h) = Cardinality(R)
    /\ \A m \in R :
          LET i == Cardinality({x \in R : x.sent_at < m.sent_at}) + 1
          IN  h[i] = [content |-> m.content, sender |-> m.sender]

\* C9: get_chat_history_for_ai gives, for a chat of more than 10 messages, 10
\* entries: the 10 messages of the chat with the greatest sent_at, oldest first;
\* for a chat of n <= 10 messages all n, oldest first; and no entry is a
\* message of another chat
C9_HistoryIsLastTen ==
    [][call'.service = "get_chat_history_for_ai" =>
         LET h == call'.chat_history
             rows == RowsOf(messages', call'.chat_id)
         IN  /\ Cardinality(rows) > HistoryLimit => Len(h) = HistoryLimit
             /\ Cardinality(rows) <= HistoryLimit => Len(h) = Cardinality(rows)
             /\ ListsAscending(h, NewestRows(messages', call'.chat_id))
             /\ \A i \in 1..Len(h) :
                   \A m \in messages' :
                      m.content = h[i].content => m.chat_id = call'.chat_id]_vars

\* the history of a chat of more than 10 messages has been read, while the
\* other chat holds messages too
C9_Witness ==
    /\ call.service = "get_chat_history_for_ai"
    /\ Cardinality(RowsOf(messages, call.chat_id)) > HistoryLimit
    /\ Len(call.chat_history) = HistoryLimit
    /\ \E m \in messages : m.chat_id # call.chat_id

(***************************************************************************)
(* Deleting a chat                                                         *)
(***************************************************************************)
\* the step is a DELETE /chats/{chat_id} answered 200
DeleteSucceeds ==
    /\ resp'.ep = "DELETE /chats/{chat_id}" /\ resp'.status = 200
    /\ (resp' # resp \/ chats' # chats \/ messages' # messages)

\* C11: a DELETE by the chat's owner that succeeds leaves no chat with that id
\* and no message with that chat id to retrieve (a GET of it answers 404), and
\* leaves every other chat and every message of another chat as it was
C11_DeleteRemovesChatAndMessages ==
    [][DeleteSucceeds =>
         LET c == resp'.chat_id IN
         /\ ChatExists(c) /\ ChatRow(c).user_id = resp'.caller
         /\ IsNone(get_chat(chats', c))
         /\ get_chat_messages(messages', c) = <<>>
         /\ get_chat_endpoint(chats', messages', resp'.caller, c).status = 404
         /\ chats' = {x \in chats : x.id # c}
         /\ messages' = {m \in messages : m.chat_id # c}]_vars

\* chat 1, which held messages, has been deleted by its owner while chat 2 and
\* its two messages are still there
C11_Witness ==
    /\ resp.ep = "DELETE /chats/{chat_id}" /\ resp.status = 200 /\ resp.chat_id = 1
    /\ ~ChatExists(1) /\ ChatExists(2)
    /\ Len(get_chat_messages(messages, 2)) = 2

(***************************************************************************)
(* app/auth.py and the authentication endpoints of app/main.py.            *)
(* A JWT is the record of its claims and of the key that signed it; the    *)
(* clock counts minutes.                                                   *)
(***************************************************************************)
MaxAuthUsers == 2
MaxTokens == 3
MaxAuthClock == 62

Usernames == {"alice", "bob"}
Emails == {"a@x.io", "b@x.io"}
Passwords == {"pw1", "pw2"}
Salts == {"s1", "s2"}
\* how far the clock moves between two requests
Ticks == {30, 31}

\* settings.secret_key, and a key the service does not sign with
SecretKey == "secret_key"
OtherKey == "other_key"

\* settings.access_token_expire_minutes
AccessTokenExpireMinutes == 30

\* create_access_token, lines 22-42, called with an expires_delta
create_access_token(sub, expires_delta, now) ==
    [sub |-> Some(sub), exp |-> now + expires_delta, key |-> SecretKey]

\* verify_token, lines 45-62: jwt.decode raises JWTError on a signature made
\* with another key and on an exp that has passed
verify_token(token, now) ==
    IF token.key # SecretKey \/ token.exp < now THEN None
    ELSE token.sub

Unauthorized(detail) == [status |-> 401, detail |-> detail, user |-> None]

\* get_current_user, lines 65-107
get_current_user(us, token, now) ==
    LET username == verify_token(token, now) IN
    IF IsNone(username) THEN Unauthorized("Could not validate credentials")
    ELSE LET user == get_user_by_username(us, Val(username)) IN
         IF IsNone(user) THEN Unauthorized("Could not validate credentials")
         ELSE [status |-> 200, detail |-> "", user |-> user]

\* what an authentication request was sent, when, and what it was answered
AuthResponse(ep, username, email, password, token, at, status, detail, user, access_token) ==
    [ep |-> ep, username |-> username, email |-> email, password |-> password,
     token |-> token, at |-> at, status |-> status, detail |-> detail,
     user |-> user, access_token |-> access_token]

NoAuthResponse == AuthResponse("none", "", "", "", None, 0, 0, "", None, None)

\* a token a client holds: the token, the request that returned it and the
\* username that request carried
Issued(token, ep, username) == [token |-> token, ep |-> ep, username |-> username]

\* POST /auth/register, lines 97-126
Register(username, email, password, salt) ==
    /\ IF ~IsNone(get_user_by_username(users, username))
       THEN /\ resp' = AuthResponse("POST /auth/register", username, email, password,
                                    None, clock, 400, "Username already registered",
                                    None, None)
            /\ UNCHANGED <<users, tokens>>
       ELSE IF ~IsNone(get_user_by_email(users, email))
       THEN /\ resp' = AuthResponse("POST /auth/register", username, email, password,
                                    None, clock, 400, "Email already registered",
                                    None, None)
            /\ UNCHANGED <<users, tokens>>
       ELSE LET created == create_user(users, username, email,
                                       hash_password(password, salt))
                db_user == Val(get_user_by_username(created, username))
                access_token == create_access_token(db_user.username,
                                                    AccessTokenExpireMinutes, clock)
            IN  /\ Cardinality(users) < MaxAuthUsers
                /\ Cardinality(tokens) < MaxTokens
                /\ users' = created
                /\ tokens' = tokens \cup {Issued(access_token, "POST /auth/register",
                                                 username)}
                /\ resp' = AuthResponse("POST /auth/register", username, email,
                                        password, None, clock, 200, "",
                                        Some(db_user), Some(access_token))
    /\ UNCHANGED <<ai_service, openai_api_key, chats, messages, clock, turn, call>>

\* POST /auth/login, lines 129-144
Login(username, password) ==
    /\ LET user == authenticate_user(users, username, password) IN
       IF IsNone(user)
       THEN /\ resp' = AuthResponse("POST /auth/login", username, "", password, None,
                                    clock, 401, "Incorrect username or password",
                                    None, None)
            /\ UNCHANGED tokens
       ELSE LET access_token == create_access_token(Val(user).username,
                                                    AccessTokenExpireMinutes, clock)
                issued == Issued(access_token, "POST /auth/login", username)
            IN  /\ issued \in tokens \/ Cardinality(tokens) < MaxTokens
                /\ tokens' = tokens \cup {issued}
                /\ resp' = AuthResponse("POST /auth/login", username, "", password,
                                        None, clock, 200, "", None,
                                        Some(access_token))
    /\ UNCHANGED <<ai_service, openai_api_key, users, chats, messages, clock, turn,
                   call>>

\* the bearer tokens a request may carry: the ones issued, and for each a
\* token with the same claims signed with another key
BearerTokens ==
    {e.token : e \in tokens} \cup {[e.token EXCEPT !.key = OtherKey] : e \in tokens}

\* GET /users/me, lines 148-151
ReadUsersMe(token) ==
    /\ LET r == get_current_user(users, token, clock) IN
       resp' = AuthResponse("GET /users/me", "", "", "", Some(token), clock, r.status,
                            r.detail, r.user, None)
    /\ UNCHANGED <<tokens, ai_service, openai_api_key, users, chats, messages, clock,
                   turn, call>>

\* time passes between two requests
Tick(d) ==
    /\ clock + d <= MaxAuthClock
    /\ clock' = clock + d
    /\ UNCHANGED <<tokens, ai_service, openai_api_key, users, chats, messages, turn,
                   resp, call>>

\* the service started on an empty database
AuthInit ==
    /\ ai_service = "ollama"
    /\ openai_api_key = TRUE
    /\ users = {}
    /\ chats = {}
    /\ messages = {}
    /\ clock = 1
    /\ turn = [p \in Procs |-> IdleTurn]
    /\ resp = NoAuthResponse
    /\ call = NoCall
    /\ tokens = {}

AuthNext ==
    \/ \E u \in Usernames, e \in Emails, pw \in Passwords, s \in Salts :
          Register(u, e, pw, s)
    \/ \E u \in Usernames, pw \in Passwords : Login(u, pw)
    \/ \E t \in BearerTokens : ReadUsersMe(t)
    \/ \E d \in Ticks : Tick(d)

SpecAuth == AuthInit /\ [][AuthNext]_vars

(***************************************************************************)
(* Properties of registration, login and the profile endpoint              *)
(***************************************************************************)
\* the step is a POST /auth/register being answered
RegisterAnswered == resp'.ep = "POST /auth/register" /\ resp' # resp

\* C12: a registration whose username, or whose e-mail, is that of an
\* existing user is answered 400 with the message for the field taken; it
\* creates no user, issues no token and leaves the users as they were
C12_DuplicateRegistrationRefused ==
    [][RegisterAnswered =>
         LET nameTaken == \E u \in users : u.username = resp'.username
             mailTaken == \E u \in users : u.email = resp'.email
         IN  (nameTaken \/ mailTaken) =>
                /\ resp'.status = 400
                /\ resp'.detail = IF nameTaken THEN "Username already registered"
                                               ELSE "Email already registered"
                /\ IsNone(resp'.user) /\ IsNone(resp'.access_token)
                /\ users' = users
                /\ tokens' = tokens]_vars

\* a registration with a new username and the e-mail of an existing user has
\* been refused
C12_Witness ==
    /\ resp.ep = "POST /auth/register" /\ resp.status = 400
    /\ resp.detail = "Email already registered"
    /\ \E u \in users : u.email = resp.email /\ u.username # resp.username

\* the user registered under this username with this password
RegisteredWith(username, password) ==
    {u \in users : /\ u.username = username
                   /\ \E s \in Salts : u.hashed_password = hash_password(password, s)}

\* C13: a login with the username and password of a registration is answered
\* 200 with an access token, and GET /users/me carrying a token a login
\* returned, before the token's expiry, answers 200 with the profile of the
\* username that login carried
C13_LoginThenProfile ==
    /\ (resp.ep = "POST /auth/login"
        /\ RegisteredWith(resp.username, resp.password) # {})
       => /\ resp.status = 200
          /\ ~IsNone(resp.access_token)
          /\ Issued(Val(resp.access_token), "POST /auth/login", resp.username)
               \in tokens
    /\ \A e \in tokens :
          (/\ e.ep = "POST /auth/login"
           /\ resp.ep = "GET /users/me"
           /\ resp.token = Some(e.token)
           /\ resp.at <= e.token.exp)
          => /\ resp.status = 200
             /\ ~IsNone(resp.user)
             /\ Val(resp.user).username = e.username
             /\ Val(resp.user) \in users

\* a second user's profile has been read with a token from a login, at the
\* last minute of the token's life
C13_Witness ==
    /\ resp.ep = "GET /users/me" /\ resp.status = 200
    /\ Cardinality(users) = 2
    /\ \E e \in tokens : /\ e.ep = "POST /auth/login"
                         /\ resp.token = Some(e.token)
                         /\ resp.at = e.token.exp
                         /\ resp.at > 1

(***************************************************************************)
(* Provider selection                                                      *)
(***************************************************************************)
\* the variant each configuration string names; every other string names the
\* default
SelectionTable ==
    [ollama |-> "ollama_service", huggingface |-> "huggingface_service",
     openai |-> "chatbot_service"]

DefaultVariant == "ollama_service"

Selected(setting) ==
    IF setting \in DOMAIN SelectionTable THEN SelectionTable[setting]
    ELSE DefaultVariant

\* C14: get_ai_service maps 'ollama', 'huggingface' and 'openai' to their
\* variants and every other value to the Ollama variant; the reply of a turn is
\* the one that variant gives; and no step changes the configuration, so a
\* later call returns the same instance
C14_SelectionIsPureMapping ==
    /\ [](/\ get_ai_service(ai_service) = Selected(ai_service)
          /\ \A p \in Procs :
                turn[p].pc = "persist_bot"
                => turn[p].bot_response
                     = generate_response(Selected(ai_service), turn[p].message,
                                         turn[p].chat_history,
                                         turn[p].outcome).value)
    /\ [][/\ ai_service' = ai_service
          /\ get_ai_service(ai_service') = get_ai_service(ai_service)]_vars

\* under a configuration string that names no variant, a turn holds the reply
\* the Ollama variant gives when its backend cannot be reached
C14_Witness ==
    /\ ai_service = "other"
    /\ \E p \in Procs :
          /\ turn[p].pc = "persist_bot"
          /\ turn[p].outcome.net = "connect_fail"
          /\ turn[p].bot_response
               # generate_response("chatbot_service", turn[p].message,
                                   turn[p].chat_history, turn[p].outcome).value

(***************************************************************************)
(* generate_chat_title on its own: each adapter instance, called with a    *)
(* first message and a backend outcome                                     *)
(***************************************************************************)
TitleVariants == {"ollama_service", "huggingface_service", "chatbot_service"}

\* first messages: short, empty, blank, five words, longer than the cut
TitleMessages ==
    {"Hello", "", "  ", "one two three four five",
     "Tell me about the history of ancient Rome"}

TitleCall(service, first_message, o, result) ==
    [fn |-> "generate_chat_title", service |-> service, message |-> first_message,
     outcome |-> o, result |-> result]

NoTitleCall == [fn |-> "none", service |-> "none", message |-> "",
                outcome |-> NoOutcome, result |-> Return(PyNone)]

GenerateChatTitle(service, first_message, o) ==
    /\ call' = TitleCall(service, first_message, o,
                         generate_chat_title(service, first_message, o))
    /\ UNCHANGED <<tokens, ai_service, openai_api_key, users, chats, messages, clock,
                   turn, resp>>

TitleInit ==
    /\ ai_service = "ollama"
    /\ openai_api_key = TRUE
    /\ users = RegisteredUsers
    /\ chats = {}
    /\ messages = {}
    /\ clock = 1
    /\ turn = [p \in Procs |-> IdleTurn]
    /\ resp = NoResponse
    /\ call = NoTitleCall
    /\ tokens = {}

TitleNext ==
    \E service \in TitleVariants, m \in TitleMessages, o \in BackendOutcomes :
       GenerateChatTitle(service, m, o)

SpecTitle == TitleInit /\ [][TitleNext]_vars

\* the model call of a title request did not give a title text
TitleCallFailed(o) ==
    \/ o \in FailureOutcomes
    \/ o.body \in {"not_json", "wrong_shape", "missing", "null", "number"}

\* the truncated-message title of each variant
TruncatedMessageTitle(service, first_message) ==
    IF service = "huggingface_service"
    THEN LET all == PySplit(first_message) IN
         PyJoin(Take(all, TitleWords)) \o (IF Len(all) > TitleWords THEN "..." ELSE "")
    ELSE ChatAboutTitle(first_message)

\* C15: generate_chat_title returns the truncated-message title when the
\* variant calls no model, when the model call fails and when the model's
\* title is empty; a title that comes from the model is never empty
C15_TitleFallback ==
    call.fn = "generate_chat_title" =>
       LET o == call.outcome
           fromModel == call.service # "huggingface_service" /\ ~TitleCallFailed(o)
       IN  /\ ~Raised(call.result)
           /\ (~fromModel \/ o.body = "empty_text")
              => call.result.value.v = TruncatedMessageTitle(call.service, call.message)
           /\ fromModel => call.result.value.v # ""

\* the same, leaving out the empty title of the OpenAI variant's model
C15_TitleFallbackButOpenAIEmpty ==
    (call.fn = "generate_chat_title"
     /\ ~(call.service = "chatbot_service" /\ call.outcome.body = "empty_text"))
    => C15_TitleFallback

(***************************************************************************)
(* The prompt builders on their own: a history grows entry by entry and    *)
(* each adapter's builder is applied to it                                 *)
(***************************************************************************)
MaxPromptHistory == 11

\* _prepare_context / _prepare_input / _prepare_messages of each instance
prepare(service, message, chat_history) ==
    CASE service \in {"ollama_service", "features_ollama_service"} ->
            ollama_prepare_context(message, chat_history)
      [] service = "huggingface_service" ->
            huggingface_prepare_input(message, chat_history)
      [] OTHER -> openai_prepare_messages(message, chat_history)

PromptCall(service, message, chat_history, prompt) ==
    [fn |-> "prepare", service |-> service, message |-> message,
     chat_history |-> chat_history, prompt |-> prompt]

\* one more entry in the history: the i-th has the content "m<i>"
PromptExtend(sender) ==
    /\ Len(call.chat_history) < MaxPromptHistory
    /\ call' = PromptCall("none", "", 
                          Append(call.chat_history,
                                 [content |-> "m" \o ToString(Len(call.chat_history) + 1),
                                  sender |-> sender]),
                          "")
    /\ UNCHANGED <<tokens, ai_service, openai_api_key, users, chats, messages, clock,
                   turn, resp>>

PromptBuild(service, message) ==
    /\ call' = PromptCall(service, message, call.chat_history,
                          prepare(service, message, call.chat_history))
    /\ UNCHANGED <<tokens, ai_service, openai_api_key, users, chats, messages, clock,
                   turn, resp>>

PromptInit ==
    /\ ai_service = "ollama"
    /\ openai_api_key = TRUE
    /\ users = RegisteredUsers
    /\ chats = {}
    /\ messages = {}
    /\ clock = 1
    /\ turn = [p \in Procs |-> IdleTurn]
    /\ resp = NoResponse
    /\ call = PromptCall("none", "", <<>>, "")
    /\ tokens = {}

PromptNext ==
    \/ \E sender \in {USER, AI} : PromptExtend(sender)
    \/ \E service \in Variants, m \in UserMessages : PromptBuild(service, m)

SpecPrompt == PromptInit /\ [][PromptNext]_vars

(***************************************************************************)
(* Properties of the prompt builders                                       *)
(***************************************************************************)
PromptBuilt == call.fn = "prepare" /\ call.service \in Variants

\* the OpenAI variant builds a list of role/content messages, the others a text
BuildsText(service) == service # "chatbot_service"

UserTag(service) == IF BuildsText(service) THEN "Human" ELSE "user"

OtherTag(service) ==
    CASE service \in {"ollama_service", "features_ollama_service"} -> "Assistant"
      [] service = "huggingface_service" -> "Bot"
      [] OTHER -> "assistant"

TagOf(service, sender) == IF sender = USER THEN UserTag(service) ELSE OtherTag(service)

\* K of each variant
WindowOf(service) ==
    CASE service \in {"ollama_service", "features_ollama_service"} -> 5
      [] service = "huggingface_service" -> 3
      [] OTHER -> 10

\* the last min(K, len) entries of a history
WindowEntries(service, h) ==
    LET k == IF Len(h) < WindowOf(service) THEN Len(h) ELSE WindowOf(service)
    IN  SubSeq(h, Len(h) - k + 1, Len(h))

\* the entries as lines "<tag>: <content>\n"
RECURSIVE TaggedLines(_, _)
TaggedLines(service, h) ==
    IF Len(h) = 0 THEN ""
    ELSE TagOf(service, h[1].sender) \o ": " \o h[1].content \o "\n"
         \o TaggedLines(service, Tail(h))

\* the entries as role/content messages
TaggedMessages(service, h) ==
    [i \in 1..Len(h) |-> [role |-> TagOf(service, h[i].sender),
                          content |-> h[i].content]]

\* a text prompt from the history lines on: the window, the new message, the cue
TextBody(service, message, h) ==
    TaggedLines(service, WindowEntries(service, h))
    \o UserTag(service) \o ": " \o message \o "\n" \o OtherTag(service) \o ":"

EndsWith(s, suffix) ==
    Len(s) >= Len(suffix) /\ SubSeq(s, Len(s) - Len(suffix) + 1, Len(s)) = suffix

\* what a text prompt holds before its body
PreambleIn(service, message, h, prompt) ==
    SubSeq(prompt, 1, Len(prompt) - Len(TextBody(service, message, h)))

\* the preamble a variant's text prompt opens with, read off the prompt built
\* for an empty message and an empty history
FixedPreamble(service) ==
    PreambleIn(service, "", <<>>, prepare(service, "", <<>>))

\* C16 as stated: every variant's prompt is a fixed, non-empty system preamble,
\* then the tagged entries of the window, then the new user message, then a
\* cue for the assistant role
C16_UniformPromptStructure ==
    PromptBuilt =>
       LET s == call.service
           p == call.prompt
       IN  IF BuildsText(s)
           THEN /\ EndsWith(p, TextBody(s, call.message, call.chat_history))
                /\ PreambleIn(s, call.message, call.chat_history, p) = FixedPreamble(s)
                /\ FixedPreamble(s) # ""
           ELSE /\ Len(p) = Len(WindowEntries(s, call.chat_history)) + 3
                /\ p[1].role = "system" /\ p[1].content # ""
                /\ SubSeq(p, 2, Len(p) - 2)
                     = TaggedMessages(s, WindowEntries(s, call.chat_history))
                /\ p[Len(p) - 1] = [role |-> "user", content |-> call.message]
                /\ p[Len(p)].role = "assistant"

\* C16: the Ollama prompt is a fixed non-empty preamble, the tagged entries of
\* the window, the new message as a Human line and the cue "Assistant:"; the
\* HuggingFace prompt is the same without any preamble and with the cue
\* "Bot:"; the OpenAI prompt is a list: a fixed system message, the tagged
\* entries of the window and, last, the new message as a user message, with
\* no cue after it
C16_PromptStructure ==
    PromptBuilt =>
       LET s == call.service
           p == call.prompt
       IN  IF BuildsText(s)
           THEN /\ EndsWith(p, TextBody(s, call.message, call.chat_history))
                /\ PreambleIn(s, call.message, call.chat_history, p) = FixedPreamble(s)
                /\ (FixedPreamble(s) = "") <=> (s = "huggingface_service")
           ELSE /\ Len(p) = Len(WindowEntries(s, call.chat_history)) + 2
                /\ p[1].role = "system" /\ p[1].content # ""
                /\ p[1] = prepare(s, "", <<>>)[1]
                /\ SubSeq(p, 2, Len(p) - 1)
                     = TaggedMessages(s, WindowEntries(s, call.chat_history))
                /\ p[Len(p)] = [role |-> "user", content |-> call.message]

\* a HuggingFace prompt has been built from a history longer than its window
C16_Witness ==
    /\ PromptBuilt /\ call.service = "huggingface_service"
    /\ Len(call.chat_history) = 4
    /\ call.chat_history[4].sender = AI

\* C17: the context holds exactly the last min(K, len) entries of the history,
\* in their order, each tagged with the user role when its sender is USER and
\* with the assistant role otherwise, K being 5 for Ollama, 3 for HuggingFace
\* and 10 for OpenAI; no older entry appears in it
C17_ContextIsLastK ==
    PromptBuilt =>
       LET s == call.service
           p == call.prompt
           h == call.chat_history
           w == WindowEntries(s, h)
           older == SubSeq(h, 1, Len(h) - Len(w))
       IN  IF BuildsText(s)
           THEN /\ p = FixedPreamble(s) \o TaggedLines(s, w)
                       \o SubSeq(prepare(s, call.message, <<>>),
                                 Len(FixedPreamble(s)) + 1,
                                 Len(prepare(s, call.message, <<>>)))
                /\ \A i \in 1..Len(older) :
                      ~PyIn(": " \o older[i].content \o "\n", p)
           ELSE /\ SubSeq(p, 2, Len(p) - 1) = TaggedMessages(s, w)
                /\ \A i \in 1..Len(older), j \in 1..Len(p) :
                      p[j].content # older[i].content

\* the OpenAI context has been built from a history of eleven entries, of
\* both senders
C17_Witness ==
    /\ PromptBuilt /\ call.service = "chatbot_service"
    /\ Len(call.chat_history) = 11
    /\ call.chat_history[1].sender = USER /\ call.chat_history[2].sender = AI
    /\ Len(call.prompt) = 12

(***************************************************************************)
(* GET /health (app/main.py, lines 73-93) and OllamaService.check_connection *)
(***************************************************************************)
MaxHealthRows == 3

\* what a GET of the backend's liveness URL does: it raises, or it answers
ProbeOutcomes == FailureOutcomes \cup {Outcome("response", 200, "text")}

\* check_connection answering True to every response
check_connection_any_response(o) == o.net = "response"

\* lines 117-123: the bare except turns every exception into False
check_connection(o) == o.net = "response" /\ o.status = 200

\* lines 76-93; o1 and o2 are what the backend of the selected variant does at
\* the two places the handler may probe it (lines 80 and 92)
health_check(setting, key, o1, o2) ==
    [status |-> 200,
     ai_service |-> setting,
     ai_status |->
        IF setting = "ollama"
        THEN (IF check_connection(o1) THEN "connected" ELSE "disconnected")
        ELSE IF setting = "openai"
        THEN (IF key THEN "configured" ELSE "not configured")
        ELSE IF setting = "huggingface" THEN "available"
        ELSE "unknown",
     ollama_running |-> IF setting = "ollama" THEN Some(check_connection(o2))
                        ELSE None]

HealthResponse(r, o1, o2) ==
    [ep |-> "GET /health", status |-> r.status, ai_service |-> r.ai_service,
     ai_status |-> r.ai_status, ollama_running |-> r.ollama_running,
     backend |-> <<o1, o2>>]

HealthCheck(o1, o2) ==
    /\ ImportSucceeds
    /\ resp' = HealthResponse(health_check(ai_service, openai_api_key, o1, o2), o1, o2)
    /\ UNCHANGED <<tokens, ai_service, openai_api_key, users, chats, messages, clock,
                   turn, call>>

\* a message is stored between two health requests
HealthStore(chat_id) ==
    /\ ImportSucceeds
    /\ Cardinality(messages) < MaxHealthRows
    /\ CrudCreateMessage(chat_id)

HealthInit ==
    /\ ai_service \in AiServiceValues
    /\ openai_api_key \in BOOLEAN
    /\ users = RegisteredUsers
    /\ chats = create_chat(create_chat({}, 1, 1), 2, 2)
    /\ messages = {}
    /\ clock = 3
    /\ turn = [p \in Procs |-> IdleTurn]
    /\ resp = [ep |-> "none"]
    /\ call = NoCall
    /\ tokens = {}

HealthNext ==
    \/ \E o1 \in ProbeOutcomes, o2 \in ProbeOutcomes : HealthCheck(o1, o2)
    \/ \E c \in CrudChats : HealthStore(c)

SpecHealth == HealthInit /\ [][HealthNext]_vars

HealthAnswered == resp.ep = "GET /health"

\* the backend of the variant chat turns use was alive when the handler ran
BackendAlive == resp.backend[1].net = "response" /\ resp.backend[1].status = 200

\* an ai_status that reports the adapter as usable
ReportsAlive(ai_status) == ai_status \in {"connected", "configured", "available"}

StepRank(pc) ==
    CASE pc = "fetch" -> 1
      [] pc = "persist_user" -> 2
      [] pc = "generate" -> 3
      [] pc = "persist_bot" -> 4
      [] pc = "title" -> 5
      [] pc = "title_write" -> 6
      [] pc = "respond" -> 7
      [] OTHER -> 0

\* the step ends a POST /chat with an exception
ChatFails == resp'.ep = "POST /chat" /\ resp'.error # "" /\ resp' # resp

\* C19: a chat turn in which a step raised is answered 500 with the generic
\* message; the failing step leaves the store as it found it, so the chat the
\* turn created and the USER message it stored stay; no step of a turn runs
\* twice: a turn only moves forward through its steps, stores at most one
\* message per step, a USER one only when persisting the user's message and
\* an AI one only when persisting the reply
C19_FailureIs500NoRetry ==
    /\ []((resp.ep = "POST /chat" /\ resp.error # "")
          => /\ resp.status = 500
             /\ resp.detail = "An error occurred while processing your message")
    /\ [][ChatFails =>
            /\ store' = store
            /\ resp'.turn.kind = "new" => ~IsNone(get_chat(chats', resp'.turn.chat))
            /\ resp'.turn.user_message # 0 =>
                  \E m \in messages' : /\ m.id = resp'.turn.user_message
                                       /\ m.sender = USER
                                       /\ m.content = resp'.turn.message]_vars
    /\ [][\A p \in Procs :
            turn[p].pc # "idle" =>
               /\ turn'[p].pc = "idle" \/ StepRank(turn'[p].pc) >= StepRank(turn[p].pc)
               /\ turn'[p].pc # turn[p].pc \/ turn'[p] = turn[p]
               /\ messages \subseteq messages'
               /\ Cardinality(messages' \ messages) <= 1
               /\ \A m \in messages' \ messages :
                     \/ turn[p].pc = "persist_user" /\ m.sender = USER
                     \/ turn[p].pc = "persist_bot" /\ m.sender = AI]_vars

\* a turn that opened a chat and stored the user's message has failed on
\* storing the reply: the chat and the message are in the store
C19_Witness ==
    /\ resp.ep = "POST /chat" /\ resp.status = 500 /\ resp.error = "IntegrityError"
    /\ resp.turn.kind = "new"
    /\ ChatExists(resp.turn.chat)
    /\ Len(get_chat_messages(messages, resp.turn.chat)) = 1

(***************************************************************************)
(* The chat list                                                           *)
(***************************************************************************)
\* rows holds each of the chats of user_id once, and no other row
ListsChatsOf(rows, cs, user_id) ==
    /\ {rows[i] : i \in DOMAIN rows} = {c \in cs : c.user_id = user_id}
    /\ Len(rows) = Cardinality({c \in cs : c.user_id = user_id})

\* no row comes before a row that was written later
LatestFirst(rows) ==
    \A i, j \in DOMAIN rows : i < j => rows[i].updated_at >= rows[j].updated_at

\* the step wrote a message into chat c or changed its title
WritesChat(c) ==
    \/ \E m \in messages' \ messages : m.chat_id = c.id
    \/ \E d \in chats' : d.id = c.id /\ d.title # c.title

\* C20: a message added to a chat or a change of its title never moves the
\* chat's updated_at back, and GET /chats answers with the caller's chats,
\* latest updated_at first
C20_ChatsListedByRecency ==
    /\ [][\A c \in chats : WritesChat(c) =>
             \E d \in chats' : d.id = c.id /\ d.updated_at >= c.updated_at]_vars
    /\ [](resp.ep = "GET /chats" =>
             /\ resp.status = 200
             /\ ListsChatsOf(resp.rows, chats, resp.caller)
             /\ LatestFirst(resp.rows))

\* C20, the part the query of get_user_chats decides: writes never move
\* updated_at back, the rows the handler of GET /chats returns are the
\* caller's chats, latest first, and on the end of a turn or of a title change
\* on the caller's chat c every such query puts c first
C20_QueryListsByRecency ==
    /\ [][\A c \in chats : WritesChat(c) =>
             \E d \in chats' : d.id = c.id /\ d.updated_at >= c.updated_at]_vars
    /\ [](resp.ep = "GET /chats" =>
             /\ ListsChatsOf(resp.rows, chats, resp.caller)
             /\ LatestFirst(resp.rows))
    /\ []((\/ resp.ep = "POST /chat" /\ resp.status = 200
           \/ resp.ep = "PUT /chats/{chat_id}/title" /\ resp.kind = "own")
          => \A rows \in get_user_chats(chats, resp.caller, ChatsLimit) :
                /\ rows # <<>>
                /\ rows[1].id = (IF resp.ep = "POST /chat" THEN resp.turn.chat
                                 ELSE resp.chat_id))

\* the caller has two chats, the one written last is listed first, and the
\* response is refused
C20_ListRefused ==
    /\ resp.ep = "GET /chats" /\ resp.status = 500
    /\ Len(resp.rows) = 2
    /\ resp.rows[1].id = 1
    /\ resp.rows[1].updated_at > resp.rows[2].updated_at

(***************************************************************************)
(* Requests served side by side. The handlers of app/main.py are           *)
(* coroutines without an await, so one server process runs each of them to *)
(* its end; two server processes on the same database file (uvicorn        *)
(* --workers, or two instances) run them statement by statement, side by   *)
(* side. Each commit is one step. The statements of DELETE /chats/{id} are *)
(* taken as one step.                                                      *)
(***************************************************************************)
RaceCallers == {u \in RegisteredUsers : u.username = "alice"}

RaceChatIdInputs == {None, Some(1)}

RaceOutcomes == {Outcome("response", 200, "text")}

RaceInit ==
    /\ ai_service = "ollama"
    /\ openai_api_key = TRUE
    /\ users = RegisteredUsers
    /\ chats = {}
    /\ messages = {}
    /\ clock = 1
    /\ turn = [p \in Procs |-> IdleTurn]
    /\ resp = NoResponse
    /\ call = NoCall
    /\ tokens = {}

RaceNext ==
    \/ \E p \in Procs, u \in RaceCallers, c \in RaceChatIdInputs, m \in UserMessages :
          Chat(p, u, c, m)
    \/ \E p \in Procs : ChatFetchHistory(p)
    \/ \E p \in Procs : ChatPersistUser(p)
    \/ \E p \in Procs, o \in RaceOutcomes : ChatGenerate(p, o)
    \/ \E p \in Procs : ChatPersistBot(p)
    \/ \E p \in Procs, o \in RaceOutcomes : ChatTitle(p, o)
    \/ \E p \in Procs : ChatTitleWrite(p)
    \/ \E p \in Procs : ChatRespond(p)
    \/ \E u \in RaceCallers, c \in 1..MaxChats : DeleteChat(u, c)

SpecRace == RaceInit /\ [][RaceNext]_vars

\* C21: every stored message belongs to a chat that exists
C21_NoOrphanMessages ==
    \A m \in messages : ~IsNone(get_chat(chats, m.chat_id))

(***************************************************************************)
(* POST /auth/register served by two processes side by side: the two       *)
(* look-ups and the insert of lines 100, 107 and 114 are steps of their    *)
(* own.                                                                    *)
(***************************************************************************)
\* a registration of process p: where it stands, and the request's fields
Registration(pc, username, email, password, salt) ==
    [pc |-> pc, username |-> username, email |-> email, password |-> password,
     salt |-> salt]

IdleRegistration == Registration("idle", "", "", "", "")

RegisterAnswer(p, status, detail, user, access_token) ==
    /\ resp' = AuthResponse("POST /auth/register", turn[p].username, turn[p].email,
                            turn[p].password, None, clock, status, detail, user,
                            access_token)
    /\ turn' = [turn EXCEPT ![p] = IdleRegistration]

RegisterBegin(p, username, email, password, salt) ==
    /\ turn[p].pc = "idle"
    /\ turn' = [turn EXCEPT ![p] = Registration("check_username", username, email,
                                                password, salt)]
    /\ UNCHANGED <<tokens, ai_service, openai_api_key, users, chats, messages, clock,
                   resp, call>>

\* lines 100-104
RegisterCheckUsername(p) ==
    /\ turn[p].pc = "check_username"
    /\ IF ~IsNone(get_user_by_username(users, turn[p].username))
       THEN RegisterAnswer(p, 400, "Username already registered", None, None)
       ELSE /\ turn' = [turn EXCEPT ![p].pc = "check_email"]
            /\ UNCHANGED resp
    /\ UNCHANGED <<tokens, ai_service, openai_api_key, users, chats, messages, clock,
                   call>>

\* lines 107-111
RegisterCheckEmail(p) ==
    /\ turn[p].pc = "check_email"
    /\ IF ~IsNone(get_user_by_email(users, turn[p].email))
       THEN RegisterAnswer(p, 400, "Email already registered", None, None)
       ELSE /\ turn' = [turn EXCEPT ![p].pc = "create"]
            /\ UNCHANGED resp
    /\ UNCHANGED <<tokens, ai_service, openai_api_key, users, chats, messages, clock,
                   call>>

\* unique=True on username and on email: the insert of a row whose username
\* or email is in the table is refused at the commit
UniqueViolated(us, username, email) ==
    \E u \in us : u.username = username \/ u.email = email

\* lines 114-126; the IntegrityError of create_user's commit is caught by
\* nobody and answered 500 by the server
RegisterCreate(p) ==
    /\ turn[p].pc = "create"
    /\ IF UniqueViolated(users, turn[p].username, turn[p].email)
       THEN /\ RegisterAnswer(p, 500, "Internal Server Error", None, None)
            /\ UNCHANGED <<users, tokens>>
       ELSE LET created == create_user(users, turn[p].username, turn[p].email,
                                       hash_password(turn[p].password, turn[p].salt))
                db_user == Val(get_user_by_username(created, turn[p].username))
                access_token == create_access_token(db_user.username,
                                                    AccessTokenExpireMinutes, clock)
            IN  /\ Cardinality(users) < MaxAuthUsers
                /\ Cardinality(tokens) < MaxTokens
                /\ users' = created
                /\ tokens' = tokens \cup {Issued(access_token, "POST /auth/register",
                                                 turn[p].username)}
                /\ RegisterAnswer(p, 200, "", Some(db_user), Some(access_token))
    /\ UNCHANGED <<ai_service, openai_api_key, chats, messages, clock, call>>

RegisterRaceInit ==
    /\ ai_service = "ollama"
    /\ openai_api_key = TRUE
    /\ users = {}
    /\ chats = {}
    /\ messages = {}
    /\ clock = 1
    /\ turn = [p \in Procs |-> IdleRegistration]
    /\ resp = NoAuthResponse
    /\ call = NoCall
    /\ tokens = {}

RegisterRaceNext ==
    \/ \E p \in Procs, u \in Usernames, e \in Emails, pw \in Passwords, s \in Salts :
          RegisterBegin(p, u, e, pw, s)
    \/ \E p \in Procs : RegisterCheckUsername(p)
    \/ \E p \in Procs : RegisterCheckEmail(p)
    \/ \E p \in Procs : RegisterCreate(p)

SpecRegisterRace == RegisterRaceInit /\ [][RegisterRaceNext]_vars

\* C22: no two users share a username or an email, and a registration that
\* is answered either created its user (200) or is refused with 400 and
\* created none
C22_RacingRegistrationRefused ==
    /\ [](\A u, v \in users :
             (u.username = v.username \/ u.email = v.email) => u = v)
    /\ [][RegisterAnswered =>
             \/ resp'.status = 200 /\ users' # users
             \/ resp'.status = 400 /\ users' = users]_vars

\* C22, what the unique columns keep: no two users share a username or an
\* email, whatever the interleaving
C22_UsersStayUnique ==
    \A u, v \in users : (u.username = v.username \/ u.email = v.email) => u = v

(***************************************************************************)
(* One user's requests and another user's chats                            *)
(***************************************************************************)
\* the user whose request the step serves: the caller of the turn under way,
\* else the caller of the request just answered
StepCaller ==
    IF \E p \in Procs : turn'[p].pc # "idle"
    THEN (CHOOSE t \in {turn'[p] : p \in Procs} : t.pc # "idle").caller
    ELSE resp'.caller

\* the rows of ms in the chats of cs that user_id does not own
MessagesOfOthers(cs, ms, user_id) ==
    {m \in ms : \E c \in cs : c.id = m.chat_id /\ c.user_id # user_id}

\* C23: a step that serves user A leaves the chats of every other user as
\* they were (row, title, updated_at) and their messages too, and creates no
\* chat for another user; a request that names another user's chat is answered
\* with an error status, and the rows GET /chats returns are the caller's
C23_OthersChatsUntouched ==
    /\ [][/\ {c \in chats' : c.user_id # StepCaller}
              = {c \in chats : c.user_id # StepCaller}
          /\ MessagesOfOthers(chats', messages', StepCaller)
              = MessagesOfOthers(chats, messages, StepCaller)]_vars
    /\ [](resp.kind = "foreign" => resp.status \in {404, 500})
    /\ [](resp.ep = "GET /chats" =>
             \A i \in DOMAIN resp.rows : resp.rows[i].user_id = resp.caller)

\* a user has asked to delete, or to retitle, or to continue another user's
\* chat that holds a turn's two messages, and the chat is still there with both
C23_Witness ==
    /\ resp.kind = "foreign"
    /\ resp.ep \in {"DELETE /chats/{chat_id}", "PUT /chats/{chat_id}/title",
                    "POST /chat"}
    /\ ~IsNone(get_chat(chats, resp.chat_id))
    /\ Val(get_chat(chats, resp.chat_id)).user_id # resp.caller
    /\ Len(get_chat_messages(messages, resp.chat_id)) = 2

(***************************************************************************)
(* The chat a turn runs on                                                 *)
(***************************************************************************)
\* the step takes up a POST /chat of process p and goes on with it
TurnTakenUp(p) == turn[p].pc = "idle" /\ turn'[p].pc # "idle"

\* C24: a turn whose request supplies a chat identifier, 0 included, goes on
\* with the chat of that identifier or is refused, and creates no chat
C24_SuppliedIdNeverCreates ==
    [][\A p \in Procs :
          (TurnTakenUp(p) /\ ~IsNone(turn'[p].req_chat_id)) =>
             /\ turn'[p].chat = Val(turn'[p].req_chat_id)
             /\ turn'[p].kind = "own"
             /\ Cardinality(chats') = Cardinality(chats)]_vars

\* C24 for the identifiers Python takes as true: a turn whose request
\* supplies an identifier other than 0 goes on with that chat or is refused,
\* and creates no chat; a turn that creates a chat was given no identifier or 0
C24_NonZeroIdNeverCreates ==
    [][\A p \in Procs :
          /\ (TurnTakenUp(p) /\ Truthy(turn'[p].req_chat_id)) =>
                /\ turn'[p].chat = Val(turn'[p].req_chat_id)
                /\ turn'[p].kind = "own"
                /\ chats' = chats
          /\ (TurnTakenUp(p) /\ turn'[p].kind = "new") =>
                turn'[p].req_chat_id \in {None, Some(0)}]_vars

(***************************************************************************)
(* Two chat turns side by side (no chat is deleted)                        *)
(***************************************************************************)
\* the generation call answers with a text, or with a null the store refuses
TurnRaceOutcomes == {Outcome("response", 200, "text"), Outcome("response", 200, "null")}

TurnRaceNext ==
    \/ \E p \in Procs, u \in RaceCallers, c \in RaceChatIdInputs, m \in UserMessages :
          Chat(p, u, c, m)
    \/ \E p \in Procs : ChatFetchHistory(p)
    \/ \E p \in Procs : ChatPersistUser(p)
    \/ \E p \in Procs, o \in TurnRaceOutcomes : ChatGenerate(p, o)
    \/ \E p \in Procs : ChatPersistBot(p)
    \/ \E p \in Procs, o \in RaceOutcomes : ChatTitle(p, o)
    \/ \E p \in Procs : ChatTitleWrite(p)
    \/ \E p \in Procs : ChatRespond(p)

SpecTurnRace == RaceInit /\ [][TurnRaceNext]_vars

\* the step stores the reply of process p's turn
ReplyStored(p) == turn[p].pc = "persist_bot" /\ turn'[p].pc = "title"

\* the senders of a listing, in its order
Senders(L) == [i \in DOMAIN L |-> L[i].sender]

\* the number of messages of sender s among the first n of the listing
CountOf(L, s, n) == Cardinality({i \in 1..n : L[i].sender = s})

\* C25 as stated: when a turn stores its reply, the last message of the
\* chat's listing by sent-at is the USER message of that turn, so that every
\* AI message directly follows the USER message it answers
C25_ReplyDirectlyFollows ==
    [][\A p \in Procs :
          ReplyStored(p) =>
             LET L == get_chat_messages(messages, turn[p].chat) IN
             /\ L # <<>>
             /\ L[Len(L)].id = turn[p].user_message
             /\ L[Len(L)].sender = USER]_vars

\* C25: when a turn stores its reply, the USER message of that turn is in
\* the chat's listing by sent-at, and the reply is listed after it, last; the
\* reply directly follows it if the chat holds one message more than the
\* history the turn fetched (no other message was stored in the chat during
\* the turn); and every beginning of a chat's listing holds at least as many
\* USER messages as AI messages
C25_ReplyFollows ==
    /\ [][\A p \in Procs :
             ReplyStored(p) =>
                LET L == get_chat_messages(messages, turn[p].chat)
                    M == get_chat_messages(messages', turn[p].chat)
                IN  /\ \E i \in DOMAIN L : /\ L[i].id = turn[p].user_message
                                           /\ L[i].sender = USER
                                           /\ L[i].content = turn[p].message
                    /\ Len(M) = Len(L) + 1
                    /\ SubSeq(M, 1, Len(L)) = L
                    /\ M[Len(M)].sender = AI
                    /\ M[Len(M)].id = turn'[p].bot_message
                    /\ (Len(L) = Len(turn[p].chat_history) + 1) =>
                          L[Len(L)].id = turn[p].user_message]_vars
    /\ [](\A c \in chats :
             LET L == get_chat_messages(messages, c.id) IN
             \A n \in 0..Len(L) : CountOf(L, AI, n) <= CountOf(L, USER, n))

\* two turns on one chat have run side by side and both have stored their
\* reply: the chat lists USER, USER, AI, AI
C25_Witness ==
    \E c \in chats :
        Senders(get_chat_messages(messages, c.id)) = <<USER, USER, AI, AI>>

(***************************************************************************)
(* Which chats get a title                                                 *)
(***************************************************************************)
HasReply(ms, chat_id) == \E m \in ms : m.chat_id = chat_id /\ m.sender = AI

\* the step ends a POST /chat with 200
TurnSucceeds ==
    /\ resp'.ep = "POST /chat" /\ resp'.status = 200
    /\ \E p \in Procs : turn[p].pc = "respond" /\ turn'[p].pc = "idle"

\* C26 as stated: while no turn is under way, every chat that holds an AI
\* message has a title
C26_RepliedChatHasTitle ==
    Quiet => \A c \in chats : HasReply(messages, c.id) => ~IsNone(c.title)

\* C26: a turn that found the chat's history empty and ends with 200 leaves
\* the chat with a title; a turn that found a history leaves the title of its
\* chat as it is, so a chat whose first turn failed after its USER message was
\* stored gets no title from the turns that follow
C26_TitleFromFirstTurnOnly ==
    /\ [][(TurnSucceeds /\ resp'.turn.chat_history = <<>>) =>
             /\ ~IsNone(get_chat(chats', resp'.turn.chat))
             /\ ~IsNone(Val(get_chat(chats', resp'.turn.chat)).title)]_vars
    /\ [][\A p \in Procs :
             (turn[p].pc \notin {"idle", "fetch"} /\ turn[p].chat_history # <<>>) =>
                \A c \in chats : c.id = turn[p].chat =>
                   \E d \in chats' : d.id = c.id /\ d.title = c.title]_vars

\* a turn on a chat whose first turn had failed after storing its USER message
\* has ended with 200: the chat holds an AI message and has no title
C26_Witness ==
    /\ Quiet
    /\ resp.ep = "POST /chat" /\ resp.status = 200
    /\ Len(resp.turn.chat_history) = 1
    /\ resp.turn.chat_history[1].sender = USER
    /\ HasReply(messages, resp.turn.chat)
    /\ ~IsNone(get_chat(chats, resp.turn.chat))
    /\ IsNone(Val(get_chat(chats, resp.turn.chat)).title)

(***************************************************************************)
(* Start-up and the OpenAI key                                             *)
(***************************************************************************)
\* the service has just been started: nothing is stored, no turn is under way
JustStarted == chats = {} /\ messages = {} /\ clock = 1 /\ Quiet

\* a registered user's POST /chat without a chat id is taken up
ServesChatTurn ==
    ENABLED (\E u \in users, m \in UserMessages : Chat("p1", u, None, m))

\* C27: with a setting other than 'openai' the service, once started, takes up
\* chat turns, whether an OpenAI key is configured or not
C27_StartsWithoutOpenAIKey ==
    (ai_service # "openai" /\ JustStarted) => ServesChatTurn

\* C27, what the import of chatbot_service makes of it: the service takes up
\* chat turns exactly if an OpenAI key is configured, whatever the setting,
\* and without a key no request is ever answered
C27_StartsIffOpenAIKey ==
    /\ JustStarted => (ServesChatTurn <=> openai_api_key)
    /\ ~openai_api_key => resp = NoResponse

====
